---- MODULE Spec2Model ----
(***************************************************************************)
(* OntoloViz: ontology tree construction and count aggregation.            *)
(*                                                                         *)
(* The module holds one state machine per component of the repository:     *)
(*   - the parent-pointer assembler of obo_utils.py  (specification Spec)  *)
(*   - the legacy parent-pointer assembler of utils.py (LegacySpec)        *)
(*   - the separator-based assembler of core.py (LoadSpec)                 *)
(*   - the count aggregation of MeSHSunburst.plot and ATCSunburst.plot on  *)
(*     the trees their loaders build (AggSpec)                             *)
(* Every specification starts all components in their constructed state    *)
(* and moves one of them; the variables of the others stay unchanged.      *)
(***************************************************************************)
EXTENDS Integers, Sequences, FiniteSets, TLC

VARIABLES
    \* obo_utils.build_non_separator_based_tree
    rows,              \* data lines of the input file so far: [id, parent]
    pc,                \* position inside build_non_separator_based_tree
    tree,              \* the forest: sequence of [key, nodes] in dict order
    nodes_to_process,  \* the pending Node objects
    last_size,         \* construct_complete_tree's last_size
    error,             \* exception that left the build, "none" if none
    \* utils.build_non_separator_based_tree
    u_rows,            \* data lines of the input file so far: [id, parent]
    u_pc,              \* position inside the function
    u_nodes,           \* the node dicts created, by creation number
    u_tree,            \* the forest: sequence of [key, nodes], nodes: id -> node number
    to_process,        \* the pending list: [attempts, node number]
    passes,            \* iterations of the while loop so far
    u_error,           \* exception that left the build, "none" if none
    \* the sunburst object the session works with: "mesh", "atc" or "none"
    engine,
    \* core.MeSHSunburst
    m_file,            \* data rows of the input file so far: [custom_id, counts]
    m_pc,              \* "edit" while the file is written, "loaded" after the load
    mesh_tree,         \* self.mesh_tree: branch key -> node records in dict order
    m_s,               \* self.s, the settings the aggregation reads
    plot_tree,         \* plot_tree of the last plot(): branch key -> node ids in dict order
    m_plots,           \* calls of plot() so far
    m_sep,             \* the level separator of the ontology type of the file
    m_color,           \* node["color"] where a plot set it: <<branch key, id>> -> colour
    m_error,           \* the exception the last plot() raised, "none" if none
    \* core.ATCSunburst
    a_file,            \* data rows of the input file so far: [atc_code, level, counts]
    a_pc,              \* "edit" while the file is written, "loaded" after the load
    atc_tree,          \* self.atc_tree: branch key -> node records in dict order
    a_s,               \* self.s, the settings the aggregation reads
    a_plots,           \* calls of plot() so far
    \* core.SunburstBase, the colour scale on its own
    c_s,               \* self.s: color_scale and default_color
    c_pc,              \* "idle", "scaled" once a table is built
    c_max,             \* the maximum the table was built for
    c_factor,          \* the factor calculate_color_scale_for_node returned
    c_scale,           \* the colour table it returned
    lookups,           \* the last two lookups in the table: [value, error, index, color]
    \* obo_utils.build_tree_from_obo_ontology and utils.get_human_phenotype_ontology
    o_heap,            \* the term dicts created, by creation number
    o_raw_terms,       \* raw_terms: the numbers of its dicts in dict order
    o_fn,              \* the function that builds the tree, "none" before the call
    o_root_id,         \* its root_id, "none" for None
    o_tree,            \* the forest: sequence of [key, nodes], nodes: [id, obj] in dict order
    o_pc,              \* "parse", "propagate", "clean", "done", "plotted"
    o_sum_dict,        \* the result of _get_child_sums: branch key -> node id -> count
    \* app_utils.ColorScalePopup and the colour scale of its parent
    p_thresholds,      \* self.thresholds: the entry pairs [pct, hex] as texts
    p_scale,           \* parent.color_scale_var: the scale as <<percent, colour>> pairs
    p_open,            \* FALSE once the popup is destroyed
    p_status,          \* the text of self.status
    p_error,           \* the exception that left the last handler, "none" if none
    \* MeSHSunburst.init and ATCSunburst.init of the object named by engine
    d_pc,              \* "constructed", "returned" or "raised"
    d_is_init,         \* self.is_init
    d_database,        \* self.database, "None" for None
    d_queries,         \* calls of self.query so far
    \* core_utils.chunks as generate_subplot_figure calls it
    k_input_list,      \* input_list
    k_number_of_chunks, \* number_of_chunks, 0 before the call
    k_chunks,          \* list(chunks(..)), <<>> before the call
    k_idx_to_grid,     \* idx_to_grid: original index -> <<col_idx, row_idx>>
    k_pc               \* "idle", "done" after the call

ppVars == <<rows, pc, tree, nodes_to_process, last_size, error>>

uVars == <<u_rows, u_pc, u_nodes, u_tree, to_process, passes, u_error>>

meshVars == <<m_file, m_pc, mesh_tree, m_s, plot_tree, m_plots, m_sep, m_color, m_error>>

atcVars == <<a_file, a_pc, atc_tree, a_s, a_plots>>

scaleVars == <<c_s, c_pc, c_max, c_factor, c_scale, lookups>>

oboVars == <<o_heap, o_raw_terms, o_fn, o_root_id, o_tree, o_pc, o_sum_dict>>

popupVars == <<p_thresholds, p_scale, p_open, p_status, p_error>>

dbVars == <<d_pc, d_is_init, d_database, d_queries>>

chunkVars == <<k_input_list, k_number_of_chunks, k_chunks, k_idx_to_grid, k_pc>>

vars == <<ppVars, uVars, engine, meshVars, atcVars, scaleVars, oboVars,
          popupVars, dbVars, chunkVars>>

(***************************************************************************)
(* Generic helpers.                                                        *)
(***************************************************************************)
Range(s) == {s[i] : i \in DOMAIN s}

\* dict assignment d[k] = v on a dict kept as a function
DictPut(d, k, v) == [x \in (DOMAIN d) \cup {k} |-> IF x = k THEN v ELSE d[x]]

EmptyDict == [x \in {} |-> 0]

\* all orders in which the elements of a finite set can be iterated
RECURSIVE Orders(_)
Orders(S) ==
    IF S = {} THEN {<<>>}
    ELSE UNION {{<<x>> \o o : o \in Orders(S \ {x})} : x \in S}

(***************************************************************************)
(* Parent-pointer assembler, obo_utils.py.                                 *)
(***************************************************************************)
\* bound of the model: number of data lines of the input file
MaxRows == 3

\* identifiers that may stand in the id and in the parent column; "" is an
\* empty cell (in the parent column: a root row)
RawIds == {"", "A", "B", "X"}

RowSet == [id : RawIds, parent : RawIds]

\* a repeated identifier that keeps its original id
MintIdUnchanged(node_id, duplicate_count) == node_id

\* f"{node_id}_{duplicate_count}"
MintId(node_id, duplicate_count) == node_id \o "_" \o ToString(duplicate_count)

\* Node.__init__: level 0, updated_parent_ids = {line_data[0]}
NewNode(original_id, updated_id, parent) ==
    [original_id |-> original_id, updated_id |-> updated_id,
     original_parent_id |-> parent, updated_parent_ids |-> {parent},
     level |-> 0]

\* Node.as_dict, the structural fields
AsDict(node) ==
    [id |-> node.updated_id,
     parent |-> CHOOSE p \in node.updated_parent_ids : TRUE,
     level |-> node.level]

\* index of the branch stored under key k, 0 if there is none
BranchIndex(t, k) ==
    IF \E i \in DOMAIN t : t[i].key = k
    THEN CHOOSE i \in DOMAIN t : t[i].key = k
    ELSE 0

\* tree[k] = nodes: a new key goes to the end, an old key keeps its place
TreePut(t, k, nodes) ==
    IF BranchIndex(t, k) = 0
    THEN Append(t, [key |-> k, nodes |-> nodes])
    ELSE [t EXCEPT ![BranchIndex(t, k)] = [key |-> k, nodes |-> nodes]]

\* the first loop of initialize_tree_structure over the data lines: the
\* duplicate map, the seeded roots and one Node per identifier
RECURSIVE ReadRows(_, _, _, _)
ReadRows(rs, t, duplicate_map, nodes) ==
    IF rs = <<>> THEN [tree |-> t, duplicate_map |-> duplicate_map, nodes |-> nodes]
    ELSE
        LET node_id == Head(rs).id
            seen == node_id \in DOMAIN duplicate_map
            node_id_updated ==
                IF seen THEN MintId(node_id, Len(duplicate_map[node_id]) + 1)
                ELSE node_id
            dm == IF seen
                  THEN [duplicate_map EXCEPT ![node_id] = Append(@, node_id_updated)]
                  ELSE DictPut(duplicate_map, node_id, <<node_id>>)
            node == NewNode(node_id, node_id_updated, Head(rs).parent)
            t2 == IF node.original_parent_id = ""
                  THEN TreePut(t, node.original_id,
                               DictPut(EmptyDict, node.original_id, AsDict(node)))
                  ELSE t
        IN ReadRows(Tail(rs), t2, dm, Append(nodes, node))

\* Node.update_parents with duplicate_map.get(original_parent_id, [])
UpdateParents(node, duplicate_map) ==
    [node EXCEPT !.updated_parent_ids =
        @ \cup (IF node.original_parent_id \in DOMAIN duplicate_map
                THEN Range(duplicate_map[node.original_parent_id])
                ELSE {})]

\* the iteration orders of the parent-id sets: Python does not fix the order
\* of a set of strings, but sets built from the same values in the same way
\* (the nodes naming the same parent) iterate alike within one run. One
\* order per original parent id that resolves to several ids.
RECURSIVE SetOrders(_, _)
SetOrders(nodes, parents) ==
    IF parents = {} THEN {EmptyDict}
    ELSE
        LET p == CHOOSE x \in parents : TRUE
            ids == (CHOOSE i \in DOMAIN nodes : nodes[i].original_parent_id = p)
            S == nodes[ids].updated_parent_ids
        IN {DictPut(f, p, o) : f \in SetOrders(nodes, parents \ {p}), o \in Orders(S)}

\* the duplication loop, lines 105-116: a node with several parent ids is
\* copied once per parent id, in the iteration order of the set
RECURSIVE FanOut(_, _)
FanOut(nodes, order) ==
    IF nodes = <<>> THEN <<>>
    ELSE
        LET node == Head(nodes)
            o == order[node.original_parent_id]
            copies ==
                IF Cardinality(node.updated_parent_ids) > 1
                THEN [i \in DOMAIN o |-> [node EXCEPT !.updated_parent_ids = {o[i]}]]
                ELSE <<node>>
        IN copies \o FanOut(Tail(nodes), order)

\* initialize_tree_structure: the possible (tree, nodes_to_process) results
InitializeTreeStructure(rs) ==
    LET r == ReadRows(rs, <<>>, EmptyDict, <<>>)
        updated == [i \in DOMAIN r.nodes |-> UpdateParents(r.nodes[i], r.duplicate_map)]
        multi == {updated[i].original_parent_id : i \in
                    {j \in DOMAIN updated : Cardinality(updated[j].updated_parent_ids) > 1}}
    IN {[tree |-> r.tree, nodes |-> FanOut(updated, order)] :
            order \in SetOrders(updated, multi)}

\* sort_to_process_topologically, lines 138-145: graph_dict has one key per
\* updated id; an edge is stored under the parent id, which raises KeyError
\* when the parent id is no key
GraphKeys(nodes) == {nodes[i].updated_id : i \in DOMAIN nodes}

RaisesKeyError(nodes) ==
    \E i \in DOMAIN nodes :
        /\ nodes[i].original_parent_id # ""
        /\ \E p \in nodes[i].updated_parent_ids : p \notin GraphKeys(nodes)

\* the edges (parent id, child id), one per append to graph_dict
Edges(nodes) ==
    {<<i, p>> : i \in DOMAIN nodes, p \in GraphKeys(nodes)} \cap
    {e \in (DOMAIN nodes) \X GraphKeys(nodes) :
        /\ nodes[e[1]].original_parent_id # ""
        /\ e[2] \in nodes[e[1]].updated_parent_ids}

\* in_degree after the ids in done have been popped: every edge leaving a
\* popped id has decremented its child once
InDegree(nodes, done, id) ==
    Cardinality({e \in Edges(nodes) : nodes[e[1]].updated_id = id /\ e[2] \notin done})

\* the while loop over the deque: the ids that reach in-degree 0 are popped
RECURSIVE Popped(_, _)
Popped(nodes, done) ==
    LET ready == {id \in GraphKeys(nodes) \ done : InDegree(nodes, done, id) = 0}
    IN IF ready = {} THEN done ELSE Popped(nodes, done \cup ready)

\* a length test that only fires on too many ordered ids
RaisesRuntimeErrorIfLonger(nodes) ==
    Cardinality(Popped(nodes, {})) > Cardinality(GraphKeys(nodes))

\* len(result) != len(graph_dict)
RaisesRuntimeError(nodes) ==
    Cardinality(Popped(nodes, {})) # Cardinality(GraphKeys(nodes))

\* the branch search of construct_complete_tree, lines 192-197: the first
\* branch, in dict order, that holds the parent id; 0 if none does
RECURSIVE FindBranch(_, _, _)
FindBranch(t, parent_id, i) ==
    IF i > Len(t) THEN 0
    ELSE IF parent_id \in DOMAIN t[i].nodes THEN i
    ELSE FindBranch(t, parent_id, i + 1)

\* the parent ids of a node in iteration order: after the duplication loop
\* every node holds exactly one
TheParent(node) == CHOOSE p \in node.updated_parent_ids : TRUE

\* insertion of one node, lines 194-195
InsertNode(t, i, node) ==
    LET placed == [node EXCEPT !.level = t[i].nodes[TheParent(node)].level + 1]
    IN [t EXCEPT ![i].nodes = DictPut(@, placed.updated_id, AsDict(placed))]

\* one pass of the for loop, lines 189-202
RECURSIVE AttachPass(_, _, _)
AttachPass(nodes, t, uninserted) ==
    IF nodes = <<>> THEN [tree |-> t, uninserted |-> uninserted]
    ELSE
        LET node == Head(nodes)
            i == FindBranch(t, TheParent(node), 1)
        IN IF i # 0
           THEN AttachPass(Tail(nodes), InsertNode(t, i, node), uninserted)
           ELSE AttachPass(Tail(nodes), t, Append(uninserted, node))

\* mutant of ClearIfOnlyRoots: the list is left as it is
ClearNever(uninserted) == uninserted

\* clear_uninserted_nodes_if_only_root_nodes_remain
ClearIfOnlyRoots(uninserted) ==
    IF \A i \in DOMAIN uninserted : uninserted[i].original_parent_id = ""
    THEN <<>>
    ELSE uninserted

(***************************************************************************)
(* Actions of the parent-pointer build.                                    *)
(***************************************************************************)
PPInit ==
    /\ rows = <<>>
    /\ pc = "read"
    /\ tree = <<>>
    /\ nodes_to_process = <<>>
    /\ last_size = 0
    /\ error = "none"

\* one more data line in the input file, one of the given lines
AddRowFrom(lines) ==
    /\ pc = "read"
    /\ Len(rows) < MaxRows
    /\ \E r \in lines : rows' = Append(rows, r)
    /\ UNCHANGED <<pc, tree, nodes_to_process, last_size, error>>
    /\ UNCHANGED <<uVars, engine, meshVars, atcVars, scaleVars, oboVars, popupVars, dbVars, chunkVars>>

AddRow == AddRowFrom(RowSet)

\* data lines whose identifiers look like the ids the disambiguation mints
MintRows == [id : {"A", "X", "X_2"}, parent : {"", "X"}]

\* one more of these lines in the input file
MintAddRow == AddRowFrom(MintRows)

\* build_non_separator_based_tree line 49
Initialize ==
    /\ pc = "read"
    /\ \E r \in InitializeTreeStructure(rows) :
        /\ tree' = r.tree
        /\ nodes_to_process' = r.nodes
    /\ pc' = "initialized"
    /\ UNCHANGED <<rows, last_size, error>>
    /\ UNCHANGED <<uVars, engine, meshVars, atcVars, scaleVars, oboVars, popupVars, dbVars, chunkVars>>

\* build_non_separator_based_tree line 50; line 184 when it returns
SortCheck ==
    /\ pc = "initialized"
    /\ IF RaisesKeyError(nodes_to_process)
       THEN /\ pc' = "raised"
            /\ error' = "KeyError"
            /\ UNCHANGED last_size
       ELSE IF RaisesRuntimeError(nodes_to_process)
       THEN /\ pc' = "raised"
            /\ error' = "RuntimeError"
            /\ UNCHANGED last_size
       ELSE /\ pc' = "attach"
            /\ last_size' = Len(nodes_to_process)
            /\ UNCHANGED error
    /\ UNCHANGED <<rows, tree, nodes_to_process>>
    /\ UNCHANGED <<uVars, engine, meshVars, atcVars, scaleVars, oboVars, popupVars, dbVars, chunkVars>>

\* one iteration of the while loop of construct_complete_tree
Pass ==
    /\ pc = "attach"
    /\ nodes_to_process # <<>>
    /\ LET r == AttachPass(nodes_to_process, tree, <<>>)
           left == ClearIfOnlyRoots(r.uninserted)
       IN /\ tree' = r.tree
          /\ nodes_to_process' = left
          /\ IF Len(left) = last_size
             THEN pc' = "done" /\ UNCHANGED last_size
             ELSE pc' = "attach" /\ last_size' = Len(left)
    /\ UNCHANGED <<rows, error>>
    /\ UNCHANGED <<uVars, engine, meshVars, atcVars, scaleVars, oboVars, popupVars, dbVars, chunkVars>>

\* the while condition fails: the build returns the tree
Return ==
    /\ pc = "attach"
    /\ nodes_to_process = <<>>
    /\ pc' = "done"
    /\ UNCHANGED <<rows, tree, nodes_to_process, last_size, error>>
    /\ UNCHANGED <<uVars, engine, meshVars, atcVars, scaleVars, oboVars, popupVars, dbVars, chunkVars>>

PPNext == AddRow \/ Initialize \/ SortCheck \/ Pass \/ Return

(***************************************************************************)
(* Legacy parent-pointer assembler, utils.build_non_separator_based_tree,  *)
(* the one app.py calls.  A node is one dict object: the pending list and  *)
(* every branch that received it hold the same object, so nodes are kept   *)
(* by creation number in u_nodes and referred to by that number.           *)
(***************************************************************************)
\* bound of the model: number of data lines of the input file
MaxLegacyRows == 3

\* bound of the model: iterations of the while loop that are followed
MaxPasses == 22

\* `if attempts >= 20`
AttemptBudget == 20

\* the reading loop, lines 17-48: one node dict per identifier; a row
\* without parent seeds (or replaces) the branch of its id, the others are
\* appended to to_process with 0 attempts
RECURSIVE LegacyRead(_, _, _, _)
LegacyRead(rs, nodes, t, pending) ==
    IF rs = <<>> THEN [nodes |-> nodes, tree |-> t, to_process |-> pending]
    ELSE
        LET node == [id |-> Head(rs).id, parent |-> Head(rs).parent, level |-> 0]
            n == Len(nodes) + 1
        IN IF node.parent = ""
           THEN LegacyRead(Tail(rs), Append(nodes, node),
                           TreePut(t, node.id, DictPut(EmptyDict, node.id, n)), pending)
           ELSE LegacyRead(Tail(rs), Append(nodes, node), t,
                           Append(pending, [attempts |-> 0, node |-> n]))

\* the inner for loop over tree.items(), lines 59-65, for the pending entry
\* idx: every branch that holds the parent id receives the node (the
\* `continue` goes on with the next branch) and appends idx to drop_idxs
RECURSIVE LegacySearch(_, _, _, _)
LegacySearch(st, idx, n, i) ==
    IF i > Len(st.tree) THEN st
    ELSE
        LET parent == st.nodes[n].parent
            sub_tree == st.tree[i].nodes
        IN IF parent \in DOMAIN sub_tree
           THEN LegacySearch(
                    [st EXCEPT
                        !.nodes[n].level = st.nodes[sub_tree[parent]].level + 1,
                        !.tree[i].nodes = DictPut(@, st.nodes[n].id, n),
                        !.drop_idxs = Append(@, idx)],
                    idx, n, i + 1)
           ELSE LegacySearch(st, idx, n, i + 1)

\* the value of attempts that the next pass reads for an entry: line 67
\* adds 1 to the loop variable only, the list entry keeps its number
AttemptsAfterPass(attempts) == attempts

\* the for loop over enumerate(to_process), lines 52-67
RECURSIVE LegacyScan(_, _)
LegacyScan(st, idx) ==
    IF idx > Len(st.to_process) THEN st
    ELSE
        LET e == st.to_process[idx]
        IN IF e.attempts >= AttemptBudget
           THEN LegacyScan([st EXCEPT !.drop_idxs = Append(@, idx)], idx + 1)
           ELSE
               LET found == LegacySearch(st, idx, e.node, 1)
               IN LegacyScan(
                    [found EXCEPT !.to_process[idx].attempts = AttemptsAfterPass(@)],
                    idx + 1)

\* del to_process[idx] for one index (1-based here)
DeleteAt(s, idx) == SubSeq(s, 1, idx - 1) \o SubSeq(s, idx + 1, Len(s))

\* sorted(drop_idxs, reverse=True): drop_idxs is built in ascending order
Reverse(s) == [i \in DOMAIN s |-> s[Len(s) + 1 - i]]

\* lines 69-70: the deletions in descending index order; an index that is
\* no longer in the list raises IndexError
RECURSIVE LegacyDrop(_, _)
LegacyDrop(pending, idxs) ==
    IF idxs = <<>> THEN [to_process |-> pending, error |-> "none"]
    ELSE IF Head(idxs) > Len(pending)
    THEN [to_process |-> pending, error |-> "IndexError"]
    ELSE LegacyDrop(DeleteAt(pending, Head(idxs)), Tail(idxs))

LegacyInit ==
    /\ u_rows = <<>>
    /\ u_pc = "read"
    /\ u_nodes = <<>>
    /\ u_tree = <<>>
    /\ to_process = <<>>
    /\ passes = 0
    /\ u_error = "none"

\* one more data line in the input file, one of the given lines, up to most
\* lines
LegacyAddRowFrom(lines, most) ==
    /\ u_pc = "read"
    /\ Len(u_rows) < most
    /\ \E r \in lines : u_rows' = Append(u_rows, r)
    /\ UNCHANGED <<u_pc, u_nodes, u_tree, to_process, passes, u_error>>
    /\ UNCHANGED <<ppVars, engine, meshVars, atcVars, scaleVars, oboVars, popupVars, dbVars, chunkVars>>

\* lines 15-48
LegacyReadFile ==
    /\ u_pc = "read"
    /\ LET r == LegacyRead(u_rows, <<>>, <<>>, <<>>)
       IN /\ u_nodes' = r.nodes
          /\ u_tree' = r.tree
          /\ to_process' = r.to_process
    /\ u_pc' = "loop"
    /\ UNCHANGED <<u_rows, passes, u_error>>
    /\ UNCHANGED <<ppVars, engine, meshVars, atcVars, scaleVars, oboVars, popupVars, dbVars, chunkVars>>

\* one iteration of `while True`, lines 51-73
LegacyPass ==
    /\ u_pc = "loop"
    /\ passes < MaxPasses
    /\ LET st == LegacyScan([nodes |-> u_nodes, tree |-> u_tree,
                             to_process |-> to_process, drop_idxs |-> <<>>], 1)
           d == LegacyDrop(st.to_process, Reverse(st.drop_idxs))
       IN /\ u_nodes' = st.nodes
          /\ u_tree' = st.tree
          /\ to_process' = d.to_process
          /\ u_error' = d.error
          /\ u_pc' = IF d.error # "none" THEN "raised"
                     ELSE IF d.to_process = <<>> THEN "done"
                     ELSE "loop"
    /\ passes' = passes + 1
    /\ UNCHANGED u_rows
    /\ UNCHANGED <<ppVars, engine, meshVars, atcVars, scaleVars, oboVars, popupVars, dbVars, chunkVars>>

LegacyAddRow == LegacyAddRowFrom(RowSet, MaxLegacyRows)

\* bound of the model: number of data lines of a file of the lines below
MaxDropRows == 6

\* data lines of a file in which the identifier X stands below two roots and
\* is itself named as parent: Y names X, W names an identifier Q no line has
DoubleHitRows ==
    {[id |-> "A", parent |-> ""], [id |-> "B", parent |-> ""],
     [id |-> "X", parent |-> "A"], [id |-> "X", parent |-> "B"],
     [id |-> "Y", parent |-> "X"], [id |-> "W", parent |-> "Q"]}

\* one more of these lines in the input file, each line at most once
DropAddRow == LegacyAddRowFrom(DoubleHitRows \ Range(u_rows), MaxDropRows)

DropNext == DropAddRow \/ LegacyReadFile \/ LegacyPass

LegacyNext == LegacyAddRow \/ LegacyReadFile \/ LegacyPass

(***************************************************************************)
(* The colour scale of core.py: calculate_color_scale_for_node builds the  *)
(* colour table of a maximum, and the plots look node values up in it.     *)
(* A colour is <<lowcolor, highcolor, n, i>>: entry i of the n colours     *)
(* n_colors() interpolates from lowcolor to highcolor; a colour that is    *)
(* handed through is entry 0 of 1.  The fractions of a colour scale are in *)
(* hundredths, as the colour scale popup of the GUI reads them.            *)
(***************************************************************************)

\* a colour as given, "#RRGGBB"
Hex(color) == <<color, color, 1, 0>>

\* plotly.colors.n_colors as core_utils.py line 42 calls it: n colours, the
\* first is lowcolor, none for n < 1; n = 1 divides by zero and is handled by
\* generate_color_range
n_colors(lowcolor, highcolor, n) ==
    [i \in 1..n |-> IF i = 1 THEN Hex(lowcolor) ELSE <<lowcolor, highcolor, n, i - 1>>]

\* mutant of generate_color_range: both ends of the index range get a colour
generate_color_range_inclusive(start_color, stop_color, values) ==
    n_colors(start_color, stop_color, values + 1)

\* core_utils.generate_color_range, lines 29-45
generate_color_range(start_color, stop_color, values) ==
    IF values = 1 THEN <<Hex(start_color)>>
    ELSE n_colors(start_color, stop_color, values)

\* a >= b on counts: the sentinels are far below one unit
CountsGeq(a, b) ==
    a.units > b.units \/ (a.units = b.units /\ a.sentinels >= b.sentinels)

\* the count 0, also what "not max_val" holds for
NoCounts == [units |-> 0, sentinels |-> 0]

\* int(x) of a count: Python truncates towards zero, and a negative count
\* that holds sentinels lies above its units
IntOf(c) == IF c.units < 0 /\ c.sentinels > 0 THEN c.units + 1 ELSE c.units

\* int(a / b) of integers a and b > 0, truncated towards zero
TruncDiv(a, b) == IF a >= 0 THEN a \div b ELSE -((-a) \div b)

\* max() of a non-empty set of counts
MaxCounts(S) == CHOOSE m \in S : \A o \in S : CountsGeq(m, o)

\* the proper prefixes k.rsplit(".", idx + 1)[0] of an identifier whose
\* levels are separated by separator: lines 363-364 and 583-584 split at "."
DotPrefixes(k, separator) ==
    IF separator = "." THEN {SubSeq(k, 1, n) : n \in 1..(Len(k) - 1)} ELSE {}

\* lines 355-364: the maximum over the most outer nodes, from node i on
RECURSIVE OuterMax(_, _, _, _, _, _)
OuterMax(sub_tree, i, whitelist, max_val, count_key, separator) ==
    IF i > Len(sub_tree) THEN max_val
    ELSE LET v == sub_tree[i]
             counted == v.id \notin whitelist /\ CountsGeq(v[count_key], max_val)
         IN OuterMax(sub_tree, i + 1, whitelist \cup DotPrefixes(v.id, separator),
                     IF counted THEN v[count_key] ELSE max_val, count_key, separator)

\* lines 343-367 and 376-377: int(max_val) of a sub tree; max_level is 0 for
\* the entire sub tree or a level, and last stands for max_level="last";
\* max() of nothing raises the ValueError that sets max_val to 0
SubTreeMax(sub_tree, max_level, last, count_key, separator) ==
    IF last
    THEN IntOf(OuterMax(sub_tree, 1, {}, NoCounts, count_key, separator))
    ELSE LET vals == {sub_tree[i][count_key] :
                         i \in {j \in DOMAIN sub_tree : sub_tree[j].level >= max_level}}
         IN IF vals = {} THEN 0 ELSE IntOf(MaxCounts(vals))

\* mutant of BucketFactor: the two divisors change places
BucketFactorSwapped(max_val) ==
    IF 100000 <= max_val /\ max_val < 250000 THEN 25
    ELSE IF max_val >= 250000 THEN 10 ELSE 1

\* lines 338 and 370-375: the factor of a maximum
BucketFactor(max_val) ==
    IF 100000 <= max_val /\ max_val < 250000 THEN 10
    ELSE IF max_val >= 250000 THEN 25 ELSE 1

\* int(max_val * limit), lines 383-384, max_val being max_units / factor
Cutoff(max_units, factor, limit) == TruncDiv(max_units * limit, factor * 100)

\* lines 380-385: the segments of the breakpoint pairs i, i + 1, ..
RECURSIVE ScaleSegments(_, _, _, _)
ScaleSegments(color_scale, i, max_units, factor) ==
    IF i > Len(color_scale) - 1 THEN <<>>
    ELSE generate_color_range(color_scale[i][2], color_scale[i + 1][2],
                              Cutoff(max_units, factor, color_scale[i + 1][1])
                              - Cutoff(max_units, factor, color_scale[i][1]))
         \o ScaleSegments(color_scale, i + 1, max_units, factor)

\* lines 369-389: factor and scale of a maximum
ScaleOfMax(s, max_units) ==
    LET factor == BucketFactor(max_units)
    IN [factor |-> factor,
        scale |-> <<Hex(s.default_color)>>
                  \o ScaleSegments(s.color_scale, 1, max_units, factor)]

\* calculate_color_scale_for_node(sub_tree, max_level=.., count_key=..)
calculate_color_scale_for_node(s, sub_tree, max_level, last, count_key, separator) ==
    ScaleOfMax(s, SubTreeMax(sub_tree, max_level, last, count_key, separator))

\* mutant of ScaleIndex: the remainder instead of the quotient
ScaleIndexModulo(value, factor) == value.units % factor

\* int(value / factor), lines 587 and 594
ScaleIndex(value, factor) ==
    IF value.units < 0 /\ value.sentinels > 0
    THEN -((-value.units - 1) \div factor)
    ELSE TruncDiv(value.units, factor)

\* scale[int(value / factor)]: the colour, or the IndexError of the list; a
\* negative index counts from the end of a Python list
ScaleLookup(scale, value, factor) ==
    LET index == ScaleIndex(value, factor)
    IN IF 0 <= index /\ index < Len(scale)
       THEN [error |-> "none", index |-> index, color |-> scale[index + 1]]
       ELSE IF -Len(scale) <= index /\ index < 0
            THEN [error |-> "none", index |-> index,
                  color |-> scale[Len(scale) + index + 1]]
            ELSE [error |-> "IndexError", index |-> index, color |-> Hex("")]

\* lines 576-597 of tree_color_propagation: the nodes i, i + 1, .. of one sub
\* tree get their colour; fs is the factor and scale of the sub tree, done
\* the [id, color] set so far; a lookup that raises ends the loop
RECURSIVE ColorNodes(_, _, _, _, _, _, _, _, _)
ColorNodes(nodes, i, whitelist, fs, type, max_level, s, separator, done) ==
    IF i > Len(nodes) THEN [colors |-> done, error |-> "none"]
    ELSE LET vv == nodes[i]
             found == ScaleLookup(fs.scale, vv.imported_counts, fs.factor)
             default == [id |-> vv.id, color |-> Hex(s.default_color)]
             looked_up == [id |-> vv.id, color |-> found.color]
         IN IF type = "phenotype"
            THEN IF vv.id \notin whitelist
                 THEN IF found.error # "none"
                      THEN [colors |-> done, error |-> found.error]
                      ELSE ColorNodes(nodes, i + 1,
                                      whitelist \cup DotPrefixes(vv.id, separator), fs,
                                      type, max_level, s, separator, Append(done, looked_up))
                 ELSE ColorNodes(nodes, i + 1, whitelist, fs, type, max_level, s,
                                 separator, Append(done, default))
            ELSE IF vv.level >= max_level
                 THEN IF found.error # "none"
                      THEN [colors |-> done, error |-> found.error]
                      ELSE ColorNodes(nodes, i + 1, whitelist, fs, type, max_level, s,
                                      separator, Append(done, looked_up))
                 ELSE ColorNodes(nodes, i + 1, whitelist, fs, type, max_level, s,
                                 separator, Append(done, default))

\* lines 546-548: the scale of type "global"; max() of nothing raises a
\* ValueError, and a maximum of 0 makes calculate_color_scale_for_node read
\* the sub tree it was not given; the maximum is handed over as it is, and
\* int(max_val * limit) of it is int(int(max_val) * limit) for the limits
\* of ColorScales, which divide 100
GlobalScale(branches, max_level, s) ==
    LET vals == UNION {{b.nodes[i].imported_counts :
                           i \in {j \in DOMAIN b.nodes : b.nodes[j].level >= max_level}} :
                       b \in Range(branches)}
    IN IF vals = {} THEN [error |-> "ValueError", factor |-> 1, scale |-> <<>>]
       ELSE IF MaxCounts(vals) = NoCounts
            THEN [error |-> "AttributeError", factor |-> 1, scale |-> <<>>]
            ELSE [error |-> "none"] @@ ScaleOfMax(s, IntOf(MaxCounts(vals)))

\* the colours of one sub tree as <<branch key, id>> -> colour
ColorsOf(key, colors) ==
    [p \in {<<key, colors[i].id>> : i \in DOMAIN colors} |->
        colors[CHOOSE i \in DOMAIN colors : colors[i].id = p[2]].color]

\* lines 551-563 and 566-597: the sub trees b, b + 1, .. of plot_tree
RECURSIVE ColorBranches(_, _, _, _, _, _, _, _)
ColorBranches(branches, b, global, type, max_level, s, separator, acc) ==
    IF b > Len(branches) THEN [color |-> acc, error |-> "none"]
    ELSE LET nodes == branches[b].nodes
             fs == IF type = "global" THEN global
                   ELSE calculate_color_scale_for_node(s, nodes, max_level,
                            type = "phenotype", "imported_counts", separator)
             r == ColorNodes(nodes, 1, {}, fs, type, max_level, s, separator, <<>>)
             colored == ColorsOf(branches[b].key, r.colors) @@ acc
         IN IF r.error # "none" THEN [color |-> colored, error |-> r.error]
            ELSE ColorBranches(branches, b + 1, global, type, max_level, s, separator,
                               colored)

\* tree_color_propagation, lines 524-597: branches are the sub trees of
\* plot_tree in dict order, [key, nodes]; the colours it sets and the
\* exception it raises
tree_color_propagation(branches, propagation_enabled, propagation_type, max_level, s, separator) ==
    IF ~propagation_enabled \/ propagation_type \notin {"specific", "global", "phenotype"}
    THEN [color |-> EmptyDict, error |-> "none"]
    ELSE LET global == IF propagation_type = "global"
                       THEN GlobalScale(branches, max_level, s)
                       ELSE [error |-> "none", factor |-> 1, scale |-> <<>>]
         IN IF global.error # "none" THEN [color |-> EmptyDict, error |-> global.error]
            ELSE ColorBranches(branches, 1, global, propagation_type, max_level, s,
                               separator, EmptyDict)

\* set_color_scale, line 146: the scale and its first colour as default colour
set_color_scale(color_scale) ==
    [color_scale |-> color_scale, default_color |-> color_scale[1][2]]

\* init_settings, lines 230 and 257
DefaultColorScale == <<<<0, "#FFFFFF">>, <<20, "#403C53">>, <<100, "#C33D35">>>>

\* the scales the colour scale popup lets through: fractions increasing from
\* 0 to 100 (app_utils.py lines 357-381)
ColorScales ==
    {DefaultColorScale,
     <<<<0, "#000000">>, <<100, "#C33D35">>>>,
     <<<<0, "#FFFFFF">>, <<50, "#403C53">>, <<100, "#C33D35">>>>}

\* largest of the small maxima
MaxSmallMax == 6

\* the maxima around the thresholds of the factor
ThresholdMaxima == {99999, 100000, 249999, 250000}

\* the maxima the table is built for
Maxima ==
    [units : 0..MaxSmallMax, sentinels : {0, 1}]
    \cup [units : ThresholdMaxima, sentinels : {0}]

\* node values the maximum was taken over: none is above it
ValuesUpTo(m) ==
    {v \in [units : IF m.units <= MaxSmallMax THEN 0..m.units
                     ELSE {0, MaxSmallMax, m.units - 1, m.units},
            sentinels : {0, 1}] :
        CountsGeq(m, v)}

ScaleInit ==
    /\ c_s = set_color_scale(DefaultColorScale)
    /\ c_pc = "idle"
    /\ c_max = NoCounts
    /\ c_factor = 1
    /\ c_scale = <<>>
    /\ lookups = <<>>

\* set_color_scale and calculate_color_scale_for_node(max_val=..), as the
\* "global" colour propagation calls it (lines 546-548)
CalculateColorScale ==
    /\ engine = "scale"
    /\ c_pc = "idle"
    /\ \E cs \in ColorScales, m \in Maxima \ {NoCounts} :
        /\ c_s' = set_color_scale(cs)
        /\ c_max' = m
        /\ LET r == ScaleOfMax(set_color_scale(cs), m.units)
           IN c_factor' = r.factor /\ c_scale' = r.scale
    /\ c_pc' = "scaled"
    /\ UNCHANGED lookups
    /\ UNCHANGED <<ppVars, uVars, engine, meshVars, atcVars, oboVars, popupVars, dbVars, chunkVars>>

\* the last two entries of a list
LastTwo(s) == IF Len(s) > 2 THEN Tail(s) ELSE s

\* one node value is looked up in the table, lines 587 and 594; the state
\* keeps the last two lookups
LookupColor ==
    /\ engine = "scale"
    /\ c_pc = "scaled"
    /\ \E v \in ValuesUpTo(c_max) :
        lookups' = LastTwo(Append(lookups, [value |-> v]
                                           @@ ScaleLookup(c_scale, v, c_factor)))
    /\ UNCHANGED <<c_s, c_pc, c_max, c_factor, c_scale>>
    /\ UNCHANGED <<ppVars, uVars, engine, meshVars, atcVars, oboVars, popupVars, dbVars, chunkVars>>

(***************************************************************************)
(* The separator-based assembler of core.py (MeSHSunburst).                *)
(*                                                                         *)
(* An identifier string is kept as the list of its segments, that is as    *)
(* tree_id.split(level_separator): "C01.001" is <<"C01", "001">>, the      *)
(* empty string is <<"">> and ".a" is <<"", "a">>.  A count is kept as     *)
(* [units, sentinels] and stands for units + sentinels * 0.000001337, so   *)
(* that the sentinels self.zero and self.fake_one stay exact.              *)
(***************************************************************************)

\* the segments the identifiers of the model are made of and the first
\* characters of its ATC codes, in the order sorted() gives them
SegmentsSorted == <<"", "001", "002", "A", "C01", "a">>

\* the segments of the identifiers of the input files
Segments == {"", "a"}

\* most segments of an identifier in the input
MaxSegs == 3

TreeIds == UNION {[1..n -> Segments] : n \in 1..MaxSegs}

\* the string ""
EmptyString == <<"">>

\* core.py line 30: self.zero = 0.000001337
zero == [units |-> 0, sentinels |-> 1]

\* core.py line 31: self.fake_one = 1.000001337
fake_one == [units |-> 1, sentinels |-> 1]

\* the counts cells of the input rows ("" is read as 0)
CountCells == {0, 2}

\* most alias identifiers in one input file, all rows together
MaxMeshIds == 2

\* the rows a file can hold with at most n alias identifiers
\* custom_id is the list of the aliases that "|" joins
MeshRows(n) ==
    [custom_id : UNION {[1..l -> TreeIds] : l \in 1..n}, counts : CountCells]

\* mutant of set_default_row_data: a count of 0 stays 0
set_default_row_data_plain(counts) == [units |-> counts, sentinels |-> 0]

\* _set_default_row_data, the counts it returns (lines 793-801)
set_default_row_data(counts) ==
    IF counts = 0 THEN zero ELSE [units |-> counts, sentinels |-> 0]

\* tree_id.split(level_separator)[0]
MainId(tree_id) == <<Head(tree_id)>>

\* tree_id.count(level_separator)
CountSeparators(tree_id) == Len(tree_id) - 1

\* mutant of RSplitHead: nothing is split off
RSplitHeadWhole(tree_id) == tree_id

\* tree_id.rsplit(level_separator, 1)[0]
RSplitHead(tree_id) ==
    IF Len(tree_id) > 1 THEN SubSeq(tree_id, 1, Len(tree_id) - 1) ELSE tree_id

\* key in dict.keys(), for a branch kept in dict order
HasNode(branch, id) == \E i \in DOMAIN branch : branch[i].id = id

\* mutant of SetNode: every assignment adds an entry
SetNodeAppend(branch, node) == Append(branch, node)

\* dict[key] = node: a present key keeps its place, a new one goes last
SetNode(branch, node) ==
    IF HasNode(branch, node.id)
    THEN [i \in DOMAIN branch |-> IF branch[i].id = node.id THEN node ELSE branch[i]]
    ELSE Append(branch, node)

\* the node record of a branch (key present)
GetNode(branch, id) == branch[CHOOSE i \in DOMAIN branch : branch[i].id = id]

\* check_mesh_parent, lines 1239-1258
RECURSIVE check_mesh_parent(_, _, _)
check_mesh_parent(t, parent, main_id) ==
    IF parent # EmptyString /\ ~HasNode(t[main_id], parent)
    THEN LET parents_parent == RSplitHead(parent)
             level == CountSeparators(parent)
             node == [counts |-> zero, label |-> "N/A", id |-> parent,
                      level |-> level,
                      parent |-> IF level > 0 THEN parents_parent ELSE EmptyString]
         IN check_mesh_parent([t EXCEPT ![main_id] = SetNode(@, node)],
                              parents_parent, main_id)
    ELSE t

\* one iteration of the loop of _reconstruct_separator_based_tree, lines 1218-1237
InsertTreeId(t, tree_id, counts, label) ==
    LET main_id == MainId(tree_id)
        level == CountSeparators(tree_id)
        parent == IF level > 0 THEN RSplitHead(tree_id) ELSE EmptyString
        t1 == IF main_id \in DOMAIN t THEN t ELSE DictPut(t, main_id, <<>>)
        node == [id |-> tree_id, level |-> level, parent |-> parent,
                 counts |-> counts, label |-> label]
    IN check_mesh_parent([t1 EXCEPT ![main_id] = SetNode(@, node)], parent, main_id)

\* _reconstruct_separator_based_tree, lines 1207-1237; tree_ids is already split
RECURSIVE reconstruct_separator_based_tree(_, _, _, _)
reconstruct_separator_based_tree(t, tree_ids, counts, label) ==
    IF tree_ids = <<>> THEN t
    ELSE reconstruct_separator_based_tree(
             InsertTreeId(t, Head(tree_ids), counts, label), Tail(tree_ids), counts, label)

\* the body of the loop of process_custom_row_data for one data row, lines 1280-1290
\* the label cell of the rows is "term"
ProcessCustomRow(t, row) ==
    IF row.custom_id = <<EmptyString>>
    THEN t
    ELSE reconstruct_separator_based_tree(t, row.custom_id,
                                          set_default_row_data(row.counts), "term")

\* process_custom_row_data on several rows
RECURSIVE process_custom_row_data(_, _)
process_custom_row_data(t, file) ==
    IF file = <<>> THEN t
    ELSE process_custom_row_data(ProcessCustomRow(t, Head(file)), Tail(file))

\* alias identifiers in the file
RECURSIVE IdsIn(_)
IdsIn(file) == IF file = <<>> THEN 0 ELSE Len(Head(file).custom_id) + IdsIn(Tail(file))

\* the settings after construction, core.py lines 230-241 and 257
MeshDefaults ==
    [mesh_drop_empty_last_child |-> FALSE, mesh_propagate_enable |-> FALSE,
     mesh_propagate_counts |-> "off", mesh_propagate_lvl |-> 0,
     mesh_propagate_color |-> "specific",
     color_scale |-> DefaultColorScale, default_color |-> DefaultColorScale[1][2]]

\* the object after construction, about to read a file whose ontology type
\* has one of the separators
MeshInitFor(separators) ==
    /\ m_file = <<>>
    /\ m_pc = "rows"
    /\ mesh_tree = EmptyDict
    /\ m_s = MeshDefaults
    /\ plot_tree = EmptyDict
    /\ m_plots = 0
    /\ m_sep \in separators
    /\ m_color = EmptyDict
    /\ m_error = "none"

MeshInit == MeshInitFor({"."})

\* process_custom_row_data reads one more data row
MeshProcessRow ==
    /\ engine = "mesh"
    /\ m_pc = "rows"
    /\ IdsIn(m_file) < MaxMeshIds
    /\ \E row \in MeshRows(MaxMeshIds - IdsIn(m_file)) :
        /\ m_file' = Append(m_file, row)
        /\ mesh_tree' = ProcessCustomRow(mesh_tree, row)
    /\ UNCHANGED <<m_pc, m_s, plot_tree, m_plots, m_sep, m_color, m_error>>
    /\ UNCHANGED <<ppVars, uVars, engine, atcVars, scaleVars, oboVars, popupVars, dbVars, chunkVars>>

\* the rows of the files that are plotted with a colour propagation
ColorRows ==
    [custom_id : {<<<<"a">>>>, <<<<"a", "a">>>>, <<<<"a", "a", "a">>>>, <<<<"A", "a">>>>},
     counts : {0, 2, -5}]

\* most rows of such a file
MaxColorRows == 2

\* process_custom_row_data reads one more of these rows
ColorProcessRow ==
    /\ engine = "mesh"
    /\ m_pc = "rows"
    /\ Len(m_file) < MaxColorRows
    /\ \E row \in ColorRows :
        /\ m_file' = Append(m_file, row)
        /\ mesh_tree' = ProcessCustomRow(mesh_tree, row)
    /\ UNCHANGED <<m_pc, m_s, plot_tree, m_plots, m_sep, m_color, m_error>>
    /\ UNCHANGED <<ppVars, uVars, engine, atcVars, scaleVars, oboVars, popupVars, dbVars, chunkVars>>

\* populate_custom_ontology_from_tsv, lines 1363-1369: every node gets imported_counts
SetImportedCounts(t) ==
    [k \in DOMAIN t |->
        [i \in DOMAIN t[k] |->
            [id |-> t[k][i].id, level |-> t[k][i].level, parent |-> t[k][i].parent,
             counts |-> t[k][i].counts, label |-> t[k][i].label,
             imported_counts |-> IF t[k][i].counts = zero THEN fake_one
                                 ELSE t[k][i].counts]]]

\* a + b on counts
AddCounts(a, b) ==
    [units |-> a.units + b.units, sentinels |-> a.sentinels + b.sentinels]

\* the levels of the nodes of a branch
LevelsOf(branch) == {branch[i].level : i \in DOMAIN branch}

\* the nodes of a branch with levels l, l - 1, .. lowest, each level in dict order
RECURSIVE FromLevelDown(_, _, _)
FromLevelDown(branch, l, lowest) ==
    IF l < lowest THEN <<>>
    ELSE SelectSeq(branch, LAMBDA n : n.level = l) \o FromLevelDown(branch, l - 1, lowest)

\* mutant of SortedByLevel: the nodes stay in dict order
SortedByInsertion(branch) == branch

\* sorted(v.items(), key=lambda x: x[1]["level"], reverse=True): the sort is stable
SortedByLevel(branch) ==
    IF branch = <<>> THEN <<>>
    ELSE FromLevelDown(branch,
                       CHOOSE l \in LevelsOf(branch) : \A o \in LevelsOf(branch) : o <= l,
                       CHOOSE l \in LevelsOf(branch) : \A o \in LevelsOf(branch) : l <= o)

\* the keys of a tree in the order sorted() gives them
SortedKeys(t) == SelectSeq(SegmentsSorted, LAMBDA seg : <<seg>> \in DOMAIN t)

\* the inner loop of the copy of MeSHSunburst.plot, lines 1510-1526, over the
\* nodes still to visit; st is [branch, ids, whitelist]: the node records of
\* the branch, the ids put into plot_tree[k] and parent_whitelist
RECURSIVE CopyNodes(_, _, _)
CopyNodes(todo, s, st) ==
    IF todo = <<>> THEN st
    ELSE LET vv == GetNode(st.branch, Head(todo).id)
             counts == vv.counts
         IN IF s.mesh_drop_empty_last_child /\ counts = zero
               /\ vv.id \notin st.whitelist
            THEN CopyNodes(Tail(todo), s, st)
            ELSE CopyNodes(Tail(todo), s,
                     [branch |-> SetNode(st.branch,
                                    [vv EXCEPT !.counts = IF counts.units >= 1 THEN counts
                                                          ELSE fake_one,
                                               !.imported_counts = counts]),
                      ids |-> Append(st.ids, vv.id),
                      whitelist |-> st.whitelist \cup {vv.parent}])

\* the copy of MeSHSunburst.plot, lines 1500-1526, over the keys still to visit;
\* st is [tree, plot, whitelist]
RECURSIVE CopyBranches(_, _, _)
CopyBranches(keys, s, st) ==
    IF keys = <<>> THEN st
    ELSE LET k == <<Head(keys)>>
             v == st.tree[k]
         IN IF s.mesh_drop_empty_last_child /\ \A i \in DOMAIN v : v[i].counts = zero
            THEN CopyBranches(Tail(keys), s, st)
            ELSE LET r == CopyNodes(SortedByLevel(v), s,
                                    [branch |-> v, ids |-> <<>>, whitelist |-> st.whitelist])
                 IN CopyBranches(Tail(keys), s,
                        [tree |-> [st.tree EXCEPT ![k] = r.branch],
                         plot |-> DictPut(st.plot, k, r.ids),
                         whitelist |-> r.whitelist])

\* the ids of a sequence of ids, as a set
IdSet(ids) == Range(ids)

\* mutant of MeshLevelTest: the parent has to lie above the threshold
MeshLevelTestAbove(parent, lvl) == parent.level > lvl

\* line 1548: parent["level"] >= self.s["mesh_propagate_lvl"]
MeshLevelTest(parent, lvl) == parent.level >= lvl

\* the propagation of MeSHSunburst.plot over one branch, lines 1535-1551;
\* kept are the ids of plot_tree[k], todo those still to visit
RECURSIVE PropagateNodes(_, _, _, _)
PropagateNodes(branch, kept, todo, s) ==
    IF todo = <<>> THEN branch
    ELSE LET vv == GetNode(branch, Head(todo))
         IN IF vv.parent \notin IdSet(kept)
            THEN PropagateNodes(branch, kept, Tail(todo), s)
            ELSE LET parent == GetNode(branch, vv.parent)
                     added == [parent EXCEPT !.imported_counts =
                                  AddCounts(@, vv.imported_counts)]
                 IN IF s.mesh_propagate_counts = "all"
                       \/ (s.mesh_propagate_counts = "level"
                           /\ MeshLevelTest(parent, s.mesh_propagate_lvl))
                    THEN PropagateNodes(SetNode(branch, added), kept, Tail(todo), s)
                    ELSE PropagateNodes(branch, kept, Tail(todo), s)

\* MeSHSunburst.plot, lines 1493-1551: the tree with the node records as the
\* plot leaves them, and plot_tree as the ids it holds per branch
MeshPlotResult(t, s) ==
    LET c == CopyBranches(SortedKeys(t), s,
                          [tree |-> t, plot |-> EmptyDict, whitelist |-> {}])
    IN [tree |-> [k \in DOMAIN t |->
                     IF s.mesh_propagate_enable /\ k \in DOMAIN c.plot
                     THEN PropagateNodes(c.tree[k], c.plot[k], c.plot[k], s)
                     ELSE c.tree[k]],
        plot |-> c.plot]

\* plot_tree.items() with the node records: [key, nodes] in dict order
PlotBranches(t, plot) ==
    LET keys == SortedKeys(plot)
    IN [b \in DOMAIN keys |->
           [key |-> <<keys[b]>>,
            nodes |-> [i \in DOMAIN plot[<<keys[b]>>] |->
                          GetNode(t[<<keys[b]>>], plot[<<keys[b]>>][i])]]]

\* line 1554: the colour propagation of MeSHSunburst.plot
MeshColorPropagation(t, plot, s, separator) ==
    tree_color_propagation(PlotBranches(t, plot), s.mesh_propagate_enable,
                           s.mesh_propagate_color, s.mesh_propagate_lvl, s, separator)

\* the settings set_settings can hand to the plot; the threshold is left at
\* its default unless the policy is "level"
MeshSettings ==
    {s \in [mesh_drop_empty_last_child : BOOLEAN, mesh_propagate_enable : BOOLEAN,
            mesh_propagate_counts : {"off", "level", "all"},
            mesh_propagate_lvl : 0..(MaxSegs - 1),
            mesh_propagate_color : {"off"},
            color_scale : {DefaultColorScale}, default_color : {DefaultColorScale[1][2]}] :
        s.mesh_propagate_counts # "level" => s.mesh_propagate_lvl = 0}

\* most calls of plot() on one loaded tree
MaxPlots == 2

\* populate_custom_ontology_from_tsv after the last row, lines 1363-1369
MeshFinishLoad ==
    /\ engine = "mesh"
    /\ m_pc = "rows"
    /\ m_pc' = "loaded"
    /\ mesh_tree' = SetImportedCounts(mesh_tree)
    /\ UNCHANGED <<m_file, m_s, plot_tree, m_plots, m_sep, m_color, m_error>>
    /\ UNCHANGED <<ppVars, uVars, engine, atcVars, scaleVars, oboVars, popupVars, dbVars, chunkVars>>

\* set_settings and plot(), lines 1488-1554, with one of the given settings;
\* the settings are chosen for the first plot and kept
MeshPlotWith(settings) ==
    /\ engine = "mesh"
    /\ m_pc = "loaded"
    /\ m_plots < MaxPlots
    /\ \E s \in settings :
        /\ m_plots > 0 => s = m_s
        /\ m_s' = s
        /\ LET r == MeshPlotResult(mesh_tree, s)
               c == MeshColorPropagation(r.tree, r.plot, s, m_sep)
           IN /\ mesh_tree' = r.tree
              /\ plot_tree' = r.plot
              /\ m_color' = c.color @@ m_color
              /\ m_error' = c.error
    /\ m_plots' = m_plots + 1
    /\ UNCHANGED <<m_file, m_pc, m_sep>>
    /\ UNCHANGED <<ppVars, uVars, engine, atcVars, scaleVars, oboVars, popupVars, dbVars, chunkVars>>

\* plot() with the colour propagation switched off
MeshPlot == MeshPlotWith(MeshSettings)

\* the settings of a plot that propagates colours; "drop empty" and the
\* count policy are left at their defaults when the propagation is disabled
MeshColorSettings ==
    {s \in [mesh_drop_empty_last_child : BOOLEAN, mesh_propagate_enable : BOOLEAN,
            mesh_propagate_counts : {"off", "all"},
            mesh_propagate_lvl : 0..(MaxSegs - 1),
            mesh_propagate_color : {"specific", "global", "phenotype"},
            color_scale : {DefaultColorScale}, default_color : {DefaultColorScale[1][2]}] :
        ~s.mesh_propagate_enable =>
            /\ ~s.mesh_drop_empty_last_child
            /\ s.mesh_propagate_counts = "off"
            /\ s.mesh_propagate_lvl = 0}

\* plot() with a colour propagation
MeshColorPlot == MeshPlotWith(MeshColorSettings)

(***************************************************************************)
(* The ATC loader and the aggregation of ATCSunburst.plot.                 *)
(***************************************************************************)

\* the settings after construction, core.py lines 246-250
AtcDefaults == [atc_propagate_counts |-> "off", atc_propagate_lvl |-> 5]

AtcInit ==
    /\ a_file = <<>>
    /\ a_pc = "rows"
    /\ atc_tree = EmptyDict
    /\ a_s = AtcDefaults
    /\ a_plots = 0

\* the ATC codes of the input files, each kept as the list of its characters
\* ("" is <<>>): A, A01, A01A, A01AA, A01AA01 and A01AA02
AtcCodes ==
    {<<"A">>, <<"A", "0", "1">>, <<"A", "0", "1", "A">>, <<"A", "0", "1", "A", "A">>,
     <<"A", "0", "1", "A", "A", "0", "1">>, <<"A", "0", "1", "A", "A", "0", "2">>}

\* the level cells of the input rows
AtcLevels == 1..5

\* most data rows of an ATC input file
MaxAtcRows == 2

AtcRows == [atc_code : AtcCodes, level : AtcLevels, counts : CountCells]

\* code[:-n]
DropLast(code, n) == IF Len(code) <= n THEN <<>> ELSE SubSeq(code, 1, Len(code) - n)

\* check_atc_parent, lines 1732-1749
RECURSIVE check_atc_parent(_, _, _, _)
check_atc_parent(t, parent, tree_id, parents_level) ==
    IF parent # <<>> /\ ~HasNode(t[tree_id], parent)
    THEN LET parents_parent == IF parents_level \in {5, 2} THEN DropLast(parent, 2)
                               ELSE DropLast(parent, 1)
             node == [label |-> "", counts |-> zero, imported_counts |-> zero,
                      id |-> parent, parent |-> parents_parent, level |-> parents_level]
         IN check_atc_parent([t EXCEPT ![tree_id] = SetNode(@, node)],
                             parents_parent, tree_id, parents_level - 1)
    ELSE t

\* the body of the loop of process_atc_row_data for one data row, lines 1769-1809
ProcessAtcRow(t, row) ==
    LET counts == set_default_row_data(row.counts)
        parent == IF row.level \in {5, 2} THEN DropLast(row.atc_code, 2)
                  ELSE IF row.level \in {4, 3} THEN DropLast(row.atc_code, 1)
                  ELSE <<>>
        tree_id == <<Head(row.atc_code)>>
        t1 == IF tree_id \in DOMAIN t THEN t ELSE DictPut(t, tree_id, <<>>)
        node == [label |-> "term", counts |-> counts, imported_counts |-> counts,
                 id |-> row.atc_code, parent |-> parent, level |-> row.level]
    IN check_atc_parent([t1 EXCEPT ![tree_id] = SetNode(@, node)],
                        parent, tree_id, row.level - 1)

\* clear_non_drug_counts, lines 1690-1695
clear_non_drug_counts(t) ==
    [k \in DOMAIN t |->
        [i \in DOMAIN t[k] |->
            IF t[k][i].level # 5 THEN [t[k][i] EXCEPT !.counts = zero] ELSE t[k][i]]]

\* c <= 1 on counts
AtMostOne(c) == c.units < 1 \/ (c.units = 1 /\ c.sentinels <= 0)

\* the first loop of ATCSunburst.plot over one branch, lines 1901-1910
AtcSetupCounts(branch) ==
    [i \in DOMAIN branch |->
        IF branch[i].level = 5
        THEN IF AtMostOne(branch[i].imported_counts)
             THEN [branch[i] EXCEPT !.counts = fake_one]
             ELSE branch[i]
        ELSE [branch[i] EXCEPT !.counts = [units |-> 0, sentinels |-> 0]]]

\* line 1921: inner_val["level"] > self.s["atc_propagate_lvl"]
AtcLevelTest(inner_val, lvl) == inner_val.level > lvl

\* the second loop of ATCSunburst.plot over one branch, lines 1913-1926;
\* todo are the ids still to visit
RECURSIVE AtcPropagateNodes(_, _, _)
AtcPropagateNodes(branch, todo, s) ==
    IF todo = <<>> THEN branch
    ELSE LET inner_val == GetNode(branch, Head(todo))
         IN IF inner_val.parent = <<>>
            THEN AtcPropagateNodes(branch, Tail(todo), s)
            ELSE LET parent == GetNode(branch, inner_val.parent)
                     summed == [parent EXCEPT !.counts = AddCounts(@, inner_val.counts)]
                     added == [summed EXCEPT !.imported_counts =
                                  AddCounts(@, inner_val.imported_counts)]
                 IN IF s.atc_propagate_counts = "all"
                       \/ (s.atc_propagate_counts = "level"
                           /\ AtcLevelTest(inner_val, s.atc_propagate_lvl))
                    THEN AtcPropagateNodes(SetNode(branch, added), Tail(todo), s)
                    ELSE AtcPropagateNodes(SetNode(branch, summed), Tail(todo), s)

\* the ids of the nodes of a branch, in the order of the branch
IdsOf(branch) == [i \in DOMAIN branch |-> branch[i].id]

\* ATCSunburst.plot, lines 1897-1926: plot_tree holds the node records of
\* atc_tree, which the plot changes in place
AtcPlotResult(t, s) ==
    [k \in DOMAIN t |->
        LET val == AtcSetupCounts(t[k])
        IN AtcPropagateNodes(val, IdsOf(SortedByLevel(val)), s)]

\* the settings set_settings can hand to the plot; the threshold is left at
\* its default unless the policy is "level"
AtcSettings ==
    {s \in [atc_propagate_counts : {"off", "level", "all"}, atc_propagate_lvl : AtcLevels] :
        s.atc_propagate_counts # "level" => s.atc_propagate_lvl = 5}

\* process_atc_row_data reads one more data row
AtcProcessRow ==
    /\ engine = "atc"
    /\ a_pc = "rows"
    /\ Len(a_file) < MaxAtcRows
    /\ \E row \in AtcRows :
        /\ a_file' = Append(a_file, row)
        /\ atc_tree' = ProcessAtcRow(atc_tree, row)
    /\ UNCHANGED <<a_pc, a_s, a_plots>>
    /\ UNCHANGED <<ppVars, uVars, engine, meshVars, scaleVars, oboVars, popupVars, dbVars, chunkVars>>

\* process_atc_row_data after the last row, line 1814
AtcFinishLoad ==
    /\ engine = "atc"
    /\ a_pc = "rows"
    /\ a_pc' = "loaded"
    /\ atc_tree' = clear_non_drug_counts(atc_tree)
    /\ UNCHANGED <<a_file, a_s, a_plots>>
    /\ UNCHANGED <<ppVars, uVars, engine, meshVars, scaleVars, oboVars, popupVars, dbVars, chunkVars>>

\* set_settings and plot(); the settings are chosen for the first plot and kept
AtcPlot ==
    /\ engine = "atc"
    /\ a_pc = "loaded"
    /\ a_plots < MaxPlots
    /\ \E s \in AtcSettings :
        /\ a_plots > 0 => s = a_s
        /\ a_s' = s
        /\ atc_tree' = AtcPlotResult(atc_tree, s)
    /\ a_plots' = a_plots + 1
    /\ UNCHANGED <<a_file, a_pc>>
    /\ UNCHANGED <<ppVars, uVars, engine, meshVars, scaleVars, oboVars, popupVars, dbVars, chunkVars>>

(***************************************************************************)
(* The OBO builds: obo_utils.build_tree_from_obo_ontology and              *)
(* utils.get_human_phenotype_ontology.  A term is one dict object; the     *)
(* objects are kept in o_heap and referred to by number, so that a dict    *)
(* that two places hold is one number in both.                             *)
(***************************************************************************)
\* most [Term] blocks of the OBO file
MaxTerms == 3

\* the ids of the terms of the file
TermIds == {"R", "S", "T"}

\* the root_id the callers name
RootId == "ROOT"

\* the is_a lines of a term: none, one or two
IsALists ==
    LET ids == TermIds \cup {RootId}
    IN {<<>>} \cup {<<a>> : a \in ids}
       \cup {p \in ids \X TermIds : p[1] # p[2]}

\* the dict of one [Term] block (obo_utils.py 388-399, utils.py 108-115);
\* level, parent and counts are keys the build adds later: level -1 and
\* "unset" stand for a key that is not there yet
NewTerm(id, is_a) ==
    [id |-> id, is_a |-> is_a, level |-> -1, parent |-> "unset", counts |-> "unset"]

\* sub_tree.keys()
BranchIds(branch) == {branch.nodes[i].id : i \in DOMAIN branch.nodes}

\* sub_tree[id], the number of the dict
ObjectOf(branch, id) ==
    branch.nodes[CHOOSE i \in DOMAIN branch.nodes : branch.nodes[i].id = id].obj

\* the terms that start a branch: the ones whose is_a names root_id
\* (obo_utils.py 452-454, utils.py 142-143), the ones without is_a when
\* root_id is None (obo_utils.py 459)
IsRootTerm(term, root_id) ==
    IF root_id = "none" THEN term.is_a = <<>> ELSE root_id \in Range(term.is_a)

\* "build first level", obo_utils.py 449-463 and utils.py 141-147: the
\* branch of a root holds the dict of raw_terms itself
RECURSIVE BuildFirstLevel(_, _, _, _, _)
BuildFirstLevel(heap, t, raw, root_id, i) ==
    IF i > Len(raw) THEN [heap |-> heap, tree |-> t]
    ELSE LET obj == raw[i]
             val == heap[obj]
         IN IF IsRootTerm(val, root_id)
            THEN BuildFirstLevel([heap EXCEPT ![obj].level = 0, ![obj].parent = ""],
                                 TreePut(t, val.id, <<[id |-> val.id, obj |-> obj]>>),
                                 raw, root_id, i + 1)
            ELSE BuildFirstLevel(heap, t, raw, root_id, i + 1)

\* the dict a branch receives for term obj: obo_utils.py 473 makes a copy,
\* utils.py 155 hands over the dict of raw_terms
PlacedObject(heap, obj, copies) == IF copies THEN Len(heap) + 1 ELSE obj

\* one iteration of the while loop of "propagate", obo_utils.py 468-477 and
\* utils.py 151-158, from branch b, term i and is_a line j on
RECURSIVE Propagate(_, _, _, _, _, _)
Propagate(st, raw, copies, b, i, j) ==
    IF b > Len(st.tree) THEN st
    ELSE IF i > Len(raw) THEN Propagate(st, raw, copies, b + 1, 1, 1)
    ELSE LET node == st.heap[raw[i]]
             sub_tree == st.tree[b]
         IN IF j > Len(node.is_a) THEN Propagate(st, raw, copies, b, i + 1, 1)
            ELSE LET is_a_id == node.is_a[j]
                 IN IF is_a_id \in BranchIds(sub_tree) /\ node.id \notin BranchIds(sub_tree)
                    THEN LET level == st.heap[ObjectOf(sub_tree, is_a_id)].level + 1
                             placed == [node EXCEPT !.level = level, !.parent = is_a_id]
                             obj == PlacedObject(st.heap, raw[i], copies)
                         IN Propagate(
                                [heap |-> IF obj > Len(st.heap) THEN Append(st.heap, placed)
                                          ELSE [st.heap EXCEPT ![obj] = placed],
                                 tree |-> [st.tree EXCEPT ![b].nodes =
                                              Append(@, [id |-> node.id, obj |-> obj])],
                                 had_content |-> TRUE],
                                raw, copies, b, i, j + 1)
                    ELSE Propagate(st, raw, copies, b, i, j + 1)

\* val["parent"] and val["parent"] not in sub_tree.keys()
MissingParent(heap, branch, n) ==
    heap[n.obj].parent # "" /\ heap[n.obj].parent \notin BranchIds(branch)

\* the nodes i, i + 1, .. of a branch without nodes_with_missing_parent
RECURSIVE KeptNodes(_, _, _)
KeptNodes(heap, branch, i) ==
    IF i > Len(branch.nodes) THEN <<>>
    ELSE (IF MissingParent(heap, branch, branch.nodes[i]) THEN <<>>
          ELSE <<branch.nodes[i]>>)
         \o KeptNodes(heap, branch, i + 1)

\* the cleaning loop, obo_utils.py 484-498 and utils.py 164-177
RECURSIVE CleanTree(_, _)
CleanTree(heap, t) ==
    IF \A b \in DOMAIN t : \A n \in Range(t[b].nodes) : ~MissingParent(heap, t[b], n)
    THEN t
    ELSE CleanTree(heap,
                   [b \in DOMAIN t |-> [t[b] EXCEPT !.nodes = KeptNodes(heap, t[b], 1)]])

\* "add zero counts, color and description", obo_utils.py 500-506 and
\* utils.py 179-185: every dict a branch holds gets its counts
AddZeroCounts(heap, t) ==
    LET held == UNION {{n.obj : n \in Range(t[b].nodes)} : b \in DOMAIN t}
    IN [o \in DOMAIN heap |->
           IF o \in held THEN [heap[o] EXCEPT !.counts = "zero"] ELSE heap[o]]

OboInit ==
    /\ o_heap = <<>>
    /\ o_raw_terms = <<>>
    /\ o_fn = "none"
    /\ o_root_id = "none"
    /\ o_tree = <<>>
    /\ o_pc = "parse"
    /\ o_sum_dict = EmptyDict

\* one more [Term] block of the file, obo_utils.py 386-424
OboParseTerm ==
    /\ engine = "obo"
    /\ o_pc = "parse"
    /\ Len(o_raw_terms) < MaxTerms
    /\ \E id \in TermIds \ {o_heap[o].id : o \in DOMAIN o_heap}, is_a \in IsALists :
        /\ o_heap' = Append(o_heap, NewTerm(id, is_a))
        /\ o_raw_terms' = Append(o_raw_terms, Len(o_heap) + 1)
    /\ UNCHANGED <<o_fn, o_root_id, o_tree, o_pc, o_sum_dict>>
    /\ UNCHANGED <<ppVars, uVars, engine, meshVars, atcVars, scaleVars, popupVars, dbVars, chunkVars>>

\* the call of one of the two builds and its first level;
\* get_human_phenotype_ontology always has a root_id
OboBuildFirstLevel ==
    /\ engine = "obo"
    /\ o_pc = "parse"
    /\ \E fn \in {"build_tree_from_obo_ontology", "get_human_phenotype_ontology"},
          root_id \in {RootId, "none"} :
        /\ fn = "get_human_phenotype_ontology" => root_id = RootId
        /\ o_fn' = fn
        /\ o_root_id' = root_id
        /\ LET r == BuildFirstLevel(o_heap, <<>>, o_raw_terms, root_id, 1)
           IN o_heap' = r.heap /\ o_tree' = r.tree
    /\ o_pc' = "propagate"
    /\ UNCHANGED <<o_raw_terms, o_sum_dict>>
    /\ UNCHANGED <<ppVars, uVars, engine, meshVars, atcVars, scaleVars, popupVars, dbVars, chunkVars>>

\* one iteration of the while loop of "propagate"
OboPropagate ==
    /\ engine = "obo"
    /\ o_pc = "propagate"
    /\ LET st == Propagate([heap |-> o_heap, tree |-> o_tree, had_content |-> FALSE],
                           o_raw_terms, o_fn = "build_tree_from_obo_ontology", 1, 1, 1)
       IN /\ o_heap' = st.heap
          /\ o_tree' = st.tree
          /\ o_pc' = IF st.had_content THEN "propagate" ELSE "clean"
    /\ UNCHANGED <<o_raw_terms, o_fn, o_root_id, o_sum_dict>>
    /\ UNCHANGED <<ppVars, uVars, engine, meshVars, atcVars, scaleVars, popupVars, dbVars, chunkVars>>

\* bound of the model: largest min_node_size of a call
MaxMinNodeSize == 3

\* mutant of DropSmall: a sub tree of exactly min_node_size nodes goes too
DropSmallOrEqual(t, min_node_size) ==
    IF min_node_size # 0
    THEN SelectSeq(t, LAMBDA b : ~(Len(b.nodes) <= min_node_size))
    ELSE t

\* obo_utils.py 515-521: the sub trees with fewer than min_node_size nodes
\* are deleted; 0 stands for None (`if min_node_size:` is false for both)
DropSmall(t, min_node_size) ==
    IF min_node_size # 0
    THEN SelectSeq(t, LAMBDA b : ~(Len(b.nodes) < min_node_size))
    ELSE t

\* the cleaning loop, the counts and the deletion of the small sub trees; the
\* tree is returned
OboFinishWith(min_node_size) ==
    /\ engine = "obo"
    /\ o_pc = "clean"
    /\ o_tree' = DropSmall(CleanTree(o_heap, o_tree), min_node_size)
    /\ o_heap' = AddZeroCounts(o_heap, CleanTree(o_heap, o_tree))
    /\ o_pc' = "done"
    /\ UNCHANGED <<o_raw_terms, o_fn, o_root_id, o_sum_dict>>
    /\ UNCHANGED <<ppVars, uVars, engine, meshVars, atcVars, scaleVars, popupVars, dbVars, chunkVars>>

\* the end of a build without min_node_size (utils.py 164-187 has none)
OboFinish == OboFinishWith(0)

\* the end of build_tree_from_obo_ontology called with a min_node_size
OboFinishMin ==
    /\ o_fn = "build_tree_from_obo_ontology"
    /\ \E min_node_size \in 1..MaxMinNodeSize : OboFinishWith(min_node_size)

\* the copy loop of plot() over one branch, core.py 1510-1525, with
\* mesh_drop_empty_last_child off: the nodes of the branch sorted by level,
\* the deepest first, nodes of one level in dict order; a node is [id, parent]
RECURSIVE PlotOrder(_, _, _)
PlotOrder(heap, nodes, level) ==
    IF level < 0 THEN <<>>
    ELSE LET at == SelectSeq(nodes, LAMBDA n : heap[n.obj].level = level)
         IN [i \in DOMAIN at |-> [id |-> at[i].id, parent |-> heap[at[i].obj].parent]]
            \o PlotOrder(heap, nodes, level - 1)

\* the copy of the tree plot() hands to generate_plot_supplements: the
\* branches by key, each one in the order of the copy loop
PlotTreeOf(heap, t) ==
    [k \in {t[b].key : b \in DOMAIN t} |->
        PlotOrder(heap, t[BranchIndex(t, k)].nodes, Len(heap))]

\* sub_tree[id]["parent"]
ParentIn(sub_tree, id) ==
    sub_tree[CHOOSE i \in DOMAIN sub_tree : sub_tree[i].id = id].parent

\* sum_dict[sub_tree_id][parent] += 1 on a defaultdict(int)
Increment(sums, parent) ==
    DictPut(sums, parent, IF parent \in DOMAIN sums THEN sums[parent] + 1 ELSE 1)

\* lines 738-750 of _get_child_sums: the direct parent and then every parent
\* up to the root node get one more
RECURSIVE TraverseUp(_, _, _)
TraverseUp(sums, sub_tree, parent) ==
    LET next == ParentIn(sub_tree, parent)
    IN IF next = "" THEN Increment(sums, parent)
       ELSE TraverseUp(Increment(sums, parent), sub_tree, next)

\* lines 733-736 of _get_child_sums: "for root-node, use total sum for subtree"
RootSum(sums, sub_tree, node_id) == DictPut(sums, node_id, Len(sub_tree))

\* the loop of _get_child_sums over the nodes i, i + 1, .. of one sub-tree
RECURSIVE ChildSumsFrom(_, _, _, _)
ChildSumsFrom(sums, sub_tree_id, sub_tree, i) ==
    IF i > Len(sub_tree) THEN sums
    ELSE LET node == sub_tree[i]
         IN IF node.id = sub_tree_id
            THEN ChildSumsFrom(RootSum(sums, sub_tree, node.id), sub_tree_id, sub_tree, i + 1)
            ELSE ChildSumsFrom(TraverseUp(sums, sub_tree, node.parent),
                               sub_tree_id, sub_tree, i + 1)

\* SunburstBase._get_child_sums
get_child_sums(copied) ==
    [k \in DOMAIN copied |-> ChildSumsFrom(EmptyDict, k, copied[k], 1)]

\* custom_ontology_counts[k][kk] at core.py 701, a read of a defaultdict(int)
ChildSum(sum_dict, k, kk) ==
    IF kk \in DOMAIN sum_dict[k] THEN sum_dict[k][kk] ELSE 0

\* plot() of a MeSHSunburst whose tree is the custom ontology that
\* get_remote_ontology built (app.py 1438, core.py 1371-1377), up to the
\* child sums of generate_plot_supplements (core.py 650-652); every count of
\* the tree is zero, so plot() copies nothing when mesh_drop_empty_last_child
\* is on
OboPlotSupplements ==
    /\ engine = "obo"
    /\ o_pc = "done"
    /\ o_fn = "build_tree_from_obo_ontology"
    /\ \E mesh_drop_empty_last_child \in BOOLEAN :
        o_sum_dict' = get_child_sums(IF mesh_drop_empty_last_child THEN EmptyDict
                                     ELSE PlotTreeOf(o_heap, o_tree))
    /\ o_pc' = "plotted"
    /\ UNCHANGED <<o_heap, o_raw_terms, o_fn, o_root_id, o_tree>>
    /\ UNCHANGED <<ppVars, uVars, engine, meshVars, atcVars, scaleVars, popupVars, dbVars, chunkVars>>

(***************************************************************************)
(* The colour scale popup, app_utils.ColorScalePopup (app.py holds the     *)
(* same class).  An entry pair is a frame with three children: the         *)
(* percentage entry of class Entry (the ttk entry of app_utils.py 33), the *)
(* colour entry of class EntryOG (tkinter.Entry) and the button.           *)
(***************************************************************************)
\* most entry pairs of the popup
MaxPairs == 3

\* what the user types into a percentage entry
PercentageTexts == {"", "x", "0", "20.0", "75", "100", "150"}

\* what the user types into a colour entry
HexTexts == {"", "#000000"}

\* the texts float() takes; on the others it raises ValueError
IsFloat(text) == text \in {"0", "20.0", "25", "75", "100", "150"}

\* float(text), in percent
FloatOf(text) ==
    CASE text = "0" -> 0
      [] text = "20.0" -> 20
      [] text = "25" -> 25
      [] text = "75" -> 75
      [] text = "100" -> 100
      [] text = "150" -> 150

\* str(percentage * 100) of add_threshold, line 257, for the fractions of
\* the default scale and of increase: 0 and 1 are ints, 0.2 is a float
StrOfPercentage(fraction) ==
    CASE fraction = 0 -> "0"
      [] fraction = 20 -> "20.0"
      [] fraction = 100 -> "100"

\* scale_frame.winfo_children(): the widgets in the order add_threshold
\* creates them
WinfoChildren(pair) ==
    <<[class |-> "Entry", text |-> pair.pct],
      [class |-> "EntryOG", text |-> pair.hex],
      [class |-> "Button", text |-> "Pick Color"]>>

\* isinstance(widget, Entry), line 353
IsEntry(widget) == widget.class = "Entry"

\* the loops of set, lines 349-381, from frame sf_idx and widget idx on (both
\* counted from 0): the status text of the return that ends them, "ValueError"
\* if float raises, "passed" if they run to their end
RECURSIVE SetChecks(_, _, _, _, _)
SetChecks(thresholds, sf_idx, idx, last_child_percentage, percentage_dupe_check) ==
    IF sf_idx >= Len(thresholds) THEN "passed"
    ELSE IF idx >= 3
    THEN SetChecks(thresholds, sf_idx + 1, 0, last_child_percentage, percentage_dupe_check)
    ELSE LET widget == WinfoChildren(thresholds[sf_idx + 1])[idx + 1]
             this_percentage == FloatOf(widget.text)
         IN IF IsEntry(widget) /\ widget.text = ""
            THEN "All entries require valid values"
            ELSE IF idx # 0
            THEN SetChecks(thresholds, sf_idx, idx + 1, last_child_percentage,
                           percentage_dupe_check)
            ELSE IF ~IsFloat(widget.text) THEN "ValueError"
            ELSE IF this_percentage < last_child_percentage
            THEN "Threshold percentages must increase"
            ELSE IF this_percentage \in percentage_dupe_check
            THEN "Threshold percentages must be unique"
            ELSE IF sf_idx = 0 /\ this_percentage # 0
            THEN "First percentage must be 0"
            ELSE IF sf_idx = Len(thresholds) - 1 /\ this_percentage # 100
            THEN "Last percentage must be 100"
            ELSE SetChecks(thresholds, sf_idx, idx + 1, this_percentage,
                           percentage_dupe_check \cup {this_percentage})

\* tmp_scale, lines 383-386; the fractions are kept in percent
TmpScale(thresholds) ==
    [i \in DOMAIN thresholds |-> <<FloatOf(thresholds[i].pct), thresholds[i].hex>>]

\* match("#[a-fA-F0-9]{6}$", color) on the texts of the model
MatchesHex(color) == color \notin {"", "x"}

\* ColorScalePopup.__init__, lines 229-232: one entry pair per breakpoint of
\* the parent's scale, which starts as the default scale
PopupInit ==
    /\ p_scale = DefaultColorScale
    /\ p_thresholds = [i \in DOMAIN DefaultColorScale |->
                          [pct |-> StrOfPercentage(DefaultColorScale[i][1]),
                           hex |-> DefaultColorScale[i][2]]]
    /\ p_open = TRUE
    /\ p_status = ""
    /\ p_error = "none"

\* the user types into a percentage entry
PopupTypePercentage ==
    /\ engine = "popup"
    /\ p_open
    /\ \E i \in DOMAIN p_thresholds, text \in PercentageTexts :
        p_thresholds' = [p_thresholds EXCEPT ![i].pct = text]
    /\ p_error' = "none"
    /\ UNCHANGED <<p_scale, p_open, p_status>>
    /\ UNCHANGED <<ppVars, uVars, engine, meshVars, atcVars, scaleVars, oboVars, dbVars, chunkVars>>

\* validate_percentage, lines 287-306, when a percentage entry loses the focus
PopupValidatePercentage ==
    /\ engine = "popup"
    /\ p_open
    /\ \E i \in DOMAIN p_thresholds :
        LET percentage == FloatOf(p_thresholds[i].pct)
        IN IF ~IsFloat(p_thresholds[i].pct)
           THEN /\ p_thresholds' = [p_thresholds EXCEPT ![i].pct = ""]
                /\ p_status' = "Percentage must be in range 0 - 100"
           ELSE IF percentage < 0
           THEN /\ p_thresholds' = [p_thresholds EXCEPT ![i].pct = "25"]
                /\ p_status' = "Percentage must be greater than 0"
           ELSE IF percentage > 100
           THEN /\ p_thresholds' = [p_thresholds EXCEPT ![i].pct = "75"]
                /\ p_status' = "Percentage must be less than 100"
           ELSE /\ p_status' = ""
                /\ UNCHANGED p_thresholds
    /\ p_error' = "none"
    /\ UNCHANGED <<p_scale, p_open>>
    /\ UNCHANGED <<ppVars, uVars, engine, meshVars, atcVars, scaleVars, oboVars, dbVars, chunkVars>>

\* the user types into a colour entry; validate_hex_color, lines 308-324, runs
\* on the key release
PopupTypeHex ==
    /\ engine = "popup"
    /\ p_open
    /\ \E i \in DOMAIN p_thresholds, color \in HexTexts :
        /\ p_thresholds' = [p_thresholds EXCEPT ![i].hex = color]
        /\ p_status' = IF MatchesHex(color) THEN ""
                       ELSE "Color code must match hex format"
    /\ p_error' = "none"
    /\ UNCHANGED <<p_scale, p_open>>
    /\ UNCHANGED <<ppVars, uVars, engine, meshVars, atcVars, scaleVars, oboVars, dbVars, chunkVars>>

\* increase, lines 326-328: add_threshold(1, self.black)
PopupIncrease ==
    /\ engine = "popup"
    /\ p_open
    /\ Len(p_thresholds) < MaxPairs
    /\ p_thresholds' = Append(p_thresholds, [pct |-> StrOfPercentage(100), hex |-> "#000000"])
    /\ p_error' = "none"
    /\ UNCHANGED <<p_scale, p_open, p_status>>
    /\ UNCHANGED <<ppVars, uVars, engine, meshVars, atcVars, scaleVars, oboVars, dbVars, chunkVars>>

\* mutant of Shortened: the last pair goes while any pair is left
ShortenedAlways(thresholds) ==
    IF Len(thresholds) > 0 THEN SubSeq(thresholds, 1, Len(thresholds) - 1) ELSE thresholds

\* lines 333-335 of decrease: "only destroy as long as 2 pairs remain"
Shortened(thresholds) ==
    IF Len(thresholds) > 2 THEN SubSeq(thresholds, 1, Len(thresholds) - 1) ELSE thresholds

\* lines 338-341 of decrease: "set last percentage to 100 if pairs are
\* reduced to 2"
LastSetTo100(thresholds) ==
    IF Len(thresholds) = 2 THEN [thresholds EXCEPT ![2].pct = "100"] ELSE thresholds

\* decrease, lines 330-341
PopupDecrease ==
    /\ engine = "popup"
    /\ p_open
    /\ p_thresholds' = LastSetTo100(Shortened(p_thresholds))
    /\ p_error' = "none"
    /\ UNCHANGED <<p_scale, p_open, p_status>>
    /\ UNCHANGED <<ppVars, uVars, engine, meshVars, atcVars, scaleVars, oboVars, dbVars, chunkVars>>

\* set, lines 343-394, the command of the Apply button
PopupSet ==
    /\ engine = "popup"
    /\ p_open
    /\ LET checked == SetChecks(p_thresholds, 0, 0, 0, {})
       IN IF checked = "passed"
          THEN /\ p_scale' = TmpScale(p_thresholds)
               /\ p_open' = FALSE
               /\ p_error' = "none"
               /\ UNCHANGED p_status
          ELSE IF checked = "ValueError"
          THEN /\ p_error' = "ValueError"
               /\ UNCHANGED <<p_scale, p_open, p_status>>
          ELSE /\ p_status' = checked
               /\ p_error' = "none"
               /\ UNCHANGED <<p_scale, p_open>>
    /\ UNCHANGED p_thresholds
    /\ UNCHANGED <<ppVars, uVars, engine, meshVars, atcVars, scaleVars, oboVars, dbVars, chunkVars>>

(***************************************************************************)
(* Database initialisation of MeSHSunburst and ATCSunburst, core.py.       *)
(***************************************************************************)
\* MeSHSunburst.__init__, lines 1036-1039, and ATCSunburst.__init__, lines
\* 1569-1572: database None, is_init False, no query made
DbInit ==
    /\ d_pc = "constructed"
    /\ d_is_init = FALSE
    /\ d_database = "None"
    /\ d_queries = 0

\* bound of the model: calls of self.query over all calls of init()
MaxQueries == 14

\* the database arguments of init(): None, the empty path, a database that
\* holds the tables with the rows below, and a path sqlite3.connect opens as
\* a database without tables
Databases == {"None", "", "full.db", "new.db"}

\* `if database:`, lines 1054 and 1583
Truthy(database) == database \notin {"None", ""}

\* cursor.execute of query, line 277, raises sqlite3.OperationalError on a
\* table the database does not hold
HasTables(database) == database = "full.db"

\* the rows of table mesh_tree in full.db: id, parent, level
MeshTreeTable ==
    <<[id |-> <<"C01">>, parent |-> EmptyString, level |-> 0],
      [id |-> <<"C01", "001">>, parent |-> <<"C01">>, level |-> 1]>>

\* the rows of table drug_atc in full.db: level1 .. level5
DrugAtcTable ==
    <<<<<<"A">>, <<"A", "0", "1">>, <<"A", "0", "1", "A">>, <<"A", "0", "1", "A", "A">>,
        <<"A", "0", "1", "A", "A", "0", "1">>>>>>

\* the loop of init_mesh_tree over the rows, lines 1065-1077
RECURSIVE MeshTreeRows(_, _)
MeshTreeRows(t, table) ==
    IF table = <<>> THEN t
    ELSE LET line == Head(table)
             node == [id |-> line.id, label |-> "term", parent |-> line.parent,
                      level |-> line.level, counts |-> [units |-> 0, sentinels |-> 0]]
         IN MeshTreeRows([t EXCEPT ![MainId(line.id)] = SetNode(@, node)], Tail(table))

\* init_mesh_tree, lines 1061-1080: two queries
init_mesh_tree(table) ==
    MeshTreeRows([k \in {MainId(table[i].id) : i \in {j \in DOMAIN table : table[j].level = 0}} |-> <<>>],
                 table)

\* lines 1611-1625 of init_atc_tree: the levels of one row from index idx on
RECURSIVE AtcTreeLevels(_, _, _)
AtcTreeLevels(t, levels, idx) ==
    IF idx > Len(levels) THEN t
    ELSE LET level_one == <<Head(levels[1])>>
             lvl == levels[idx]
             node == [label |-> "term", counts |-> [units |-> 0, sentinels |-> 0],
                      imported_counts |-> [units |-> 0, sentinels |-> 0],
                      id |-> lvl, parent |-> IF idx > 1 THEN levels[idx - 1] ELSE <<>>,
                      level |-> idx]
         IN AtcTreeLevels(IF HasNode(t[level_one], lvl) THEN t
                          ELSE [t EXCEPT ![level_one] = SetNode(@, node)],
                          levels, idx + 1)

\* init_atc_tree, lines 1590-1630: three queries
RECURSIVE init_atc_tree(_, _)
init_atc_tree(t, table) ==
    IF table = <<>> THEN t
    ELSE init_atc_tree(AtcTreeLevels(t, Head(table), 1), Tail(table))

\* mutant of IsInitAfter: is_init is set inside the `if database:` block
IsInitInsideIf(database, is_init) == IF Truthy(database) THEN TRUE ELSE is_init

\* lines 1059 and 1588: self.is_init = True, after the `if database:` block
IsInitAfter(database, is_init) == TRUE

\* MeSHSunburst.init(database), lines 1049-1059; init_db makes two queries
\* (lines 49-51), init_mesh_tree two more
MeshSunburstInit(database) ==
    /\ engine = "mesh"
    /\ m_pc = "rows"
    /\ d_queries + 4 <= MaxQueries
    /\ IF ~Truthy(database)
       THEN /\ d_is_init' = IsInitAfter(database, d_is_init)
            /\ d_pc' = "returned"
            /\ UNCHANGED <<d_database, d_queries, mesh_tree>>
       ELSE IF HasTables(database)
       THEN /\ d_database' = database
            /\ d_queries' = d_queries + 4
            /\ mesh_tree' = init_mesh_tree(MeshTreeTable)
            /\ d_is_init' = IsInitAfter(database, d_is_init)
            /\ d_pc' = "returned"
       ELSE /\ d_database' = database
            /\ d_queries' = d_queries + 1
            /\ d_pc' = "raised"
            /\ UNCHANGED <<d_is_init, mesh_tree>>
    /\ UNCHANGED <<m_file, m_pc, m_s, plot_tree, m_plots, m_sep, m_color, m_error>>
    /\ UNCHANGED <<ppVars, uVars, engine, atcVars, scaleVars, oboVars, popupVars, chunkVars>>

\* ATCSunburst.init(database), lines 1578-1588; init_db makes two queries,
\* init_atc_tree three more
AtcSunburstInit(database) ==
    /\ engine = "atc"
    /\ a_pc = "rows"
    /\ d_queries + 5 <= MaxQueries
    /\ IF ~Truthy(database)
       THEN /\ d_is_init' = IsInitAfter(database, d_is_init)
            /\ d_pc' = "returned"
            /\ UNCHANGED <<d_database, d_queries, atc_tree>>
       ELSE IF HasTables(database)
       THEN /\ d_database' = database
            /\ d_queries' = d_queries + 5
            /\ atc_tree' = init_atc_tree([k \in {<<"A">>} |-> <<>>], DrugAtcTable)
            /\ d_is_init' = IsInitAfter(database, d_is_init)
            /\ d_pc' = "returned"
       ELSE /\ d_database' = database
            /\ d_queries' = d_queries + 1
            /\ d_pc' = "raised"
            /\ UNCHANGED <<d_is_init, atc_tree>>
    /\ UNCHANGED <<a_file, a_pc, a_s, a_plots>>
    /\ UNCHANGED <<ppVars, uVars, engine, meshVars, scaleVars, oboVars, popupVars, chunkVars>>

(***************************************************************************)
(* chunks of core_utils.py and the grid of generate_subplot_figure.        *)
(***************************************************************************)
\* nothing was chunked yet
ChunkInit ==
    /\ k_input_list = <<>>
    /\ k_number_of_chunks = 0
    /\ k_chunks = <<>>
    /\ k_idx_to_grid = EmptyDict
    /\ k_pc = "idle"

\* bound of the model: longest input list
MaxListLen == 5

\* bound of the model: largest number_of_chunks; the callers pass at least 1
\* (core.py line 910 asks summary_plot != 0, line 205 refuses a negative one)
MaxChunks == 4

\* the elements of the input lists of a direct call; a list may repeat one
ChunkElements == {"a", "b"}

\* list(range(n))
RangeList(n) == [i \in 1..n |-> i - 1]

\* mutant of Slice: the slice stops after its first element
SliceFirst(input_list, start, step) ==
    IF start >= Len(input_list) THEN <<>> ELSE <<input_list[start + 1]>>

\* input_list[start::step] for 0 <= start and 1 <= step
RECURSIVE Slice(_, _, _)
Slice(input_list, start, step) ==
    IF start >= Len(input_list) THEN <<>>
    ELSE <<input_list[start + 1]>> \o Slice(input_list, start + step, step)

\* list(chunks(input_list, number_of_chunks)), core_utils.py lines 4-7:
\* entry i + 1 is what the generator yields for i
chunks(input_list, number_of_chunks) ==
    [i \in 1..number_of_chunks |-> Slice(input_list, i - 1, number_of_chunks)]

\* idx_to_grid of generate_subplot_figure, core.py lines 997-1001
GridOf(yielded) ==
    [original_idx \in UNION {Range(yielded[c]) : c \in DOMAIN yielded} |->
        LET col == CHOOSE c \in DOMAIN yielded : original_idx \in Range(yielded[c])
            row == CHOOSE r \in DOMAIN yielded[col] : yielded[col][r] = original_idx
        IN <<col - 1, row - 1>>]

\* a call of chunks on a list
ChunksCall ==
    /\ engine = "chunks"
    /\ \E n \in 0..MaxListLen, number_of_chunks \in 1..MaxChunks :
         \E input_list \in [1..n -> ChunkElements] :
            /\ k_input_list' = input_list
            /\ k_number_of_chunks' = number_of_chunks
            /\ k_chunks' = chunks(input_list, number_of_chunks)
    /\ k_idx_to_grid' = EmptyDict
    /\ k_pc' = "chunked"
    /\ UNCHANGED <<ppVars, uVars, engine, meshVars, atcVars, scaleVars, oboVars, popupVars, dbVars>>

\* generate_subplot_figure(cols, traces, headers, title), lines 996-1001
GenerateSubplotFigure ==
    /\ engine = "chunks"
    /\ \E headers \in 0..MaxListLen, cols \in 1..MaxChunks :
            /\ k_input_list' = RangeList(headers)
            /\ k_number_of_chunks' = cols
            /\ k_chunks' = chunks(RangeList(headers), cols)
            /\ k_idx_to_grid' = GridOf(chunks(RangeList(headers), cols))
    /\ k_pc' = "grid"
    /\ UNCHANGED <<ppVars, uVars, engine, meshVars, atcVars, scaleVars, oboVars, popupVars, dbVars>>

(***************************************************************************)
(* Specifications.                                                         *)
(***************************************************************************)
\* every component as its constructor leaves it
Constructed ==
    /\ PPInit /\ LegacyInit /\ MeshInit /\ AtcInit /\ ScaleInit /\ OboInit
    /\ PopupInit /\ DbInit /\ ChunkInit

Init == Constructed /\ engine = "none"

Next == PPNext

\* the parent-pointer build of obo_utils.py on every input file
Spec == Init /\ [][Next]_vars

\* the same build when the loop of construct_complete_tree is not stopped
\* from outside: an iteration that can be taken is taken
FairSpec == Init /\ [][Next]_vars /\ WF_vars(Pass) /\ WF_vars(Return)

\* the legacy build of utils.py on the files whose lines put one identifier
\* into two branches
DropSpec == Init /\ [][DropNext]_vars

\* the legacy build of utils.py on every input file
LegacySpec == Init /\ [][LegacyNext]_vars

LoadInit == Constructed /\ engine = "mesh"

LoadNext == MeshProcessRow

\* the separator-based assembler of core.py on every input file
LoadSpec == LoadInit /\ [][LoadNext]_vars

AggInit == Constructed /\ engine \in {"mesh", "atc"}

AggNext ==
    \/ MeshProcessRow \/ MeshFinishLoad \/ MeshPlot
    \/ AtcProcessRow \/ AtcFinishLoad \/ AtcPlot

\* load and plot() of MeSHSunburst, or of ATCSunburst, on every input file
AggSpec == AggInit /\ [][AggNext]_vars

\* a MeSHSunburst about to load a file of one of the separator-based types
ColorInit ==
    /\ PPInit /\ LegacyInit /\ MeshInitFor({".", "/"}) /\ AtcInit /\ ScaleInit /\ OboInit
    /\ PopupInit /\ DbInit /\ ChunkInit
    /\ engine = "mesh"

ColorNext == ColorProcessRow \/ MeshFinishLoad \/ MeshColorPlot

\* load and plot() of MeSHSunburst with a colour propagation
ColorSpec == ColorInit /\ [][ColorNext]_vars

OboInitEngine == Constructed /\ engine = "obo"

OboNext == OboParseTerm \/ OboBuildFirstLevel \/ OboPropagate \/ OboFinish

\* the OBO builds on every file of terms
OboSpec == OboInitEngine /\ [][OboNext]_vars

\* a data row of an input file is read into an object no database was loaded
\* into (a load from a file starts from an empty tree, lines 1408 and 1679)
DbMeshProcessRow == d_queries = 0 /\ MeshProcessRow

DbAtcProcessRow == d_queries = 0 /\ AtcProcessRow

DbInitEngine == Constructed /\ engine \in {"mesh", "atc"}

DbNext ==
    \/ \E database \in Databases : MeshSunburstInit(database)
    \/ \E database \in Databases : AtcSunburstInit(database)
    \/ DbMeshProcessRow
    \/ DbAtcProcessRow

\* construction and init() of MeSHSunburst, or of ATCSunburst, with the rows of
\* an input file read before or after
DbSpec == DbInitEngine /\ [][DbNext]_vars

ChunkInitEngine == Constructed /\ engine = "chunks"

ChunkNext == ChunksCall \/ GenerateSubplotFigure

\* chunks on every list, directly and from generate_subplot_figure
ChunkSpec == ChunkInitEngine /\ [][ChunkNext]_vars

PopupInitEngine == Constructed /\ engine = "popup"

PopupNext ==
    \/ PopupTypePercentage \/ PopupValidatePercentage \/ PopupTypeHex
    \/ PopupIncrease \/ PopupDecrease \/ PopupSet

\* the colour scale popup under every use of its entries and buttons
PopupSpec == PopupInitEngine /\ [][PopupNext]_vars

MinSizeNext == OboNext \/ OboFinishMin

\* the OBO builds with and without a min_node_size
MinSizeSpec == OboInitEngine /\ [][MinSizeNext]_vars

SupplementsNext == OboNext \/ OboPlotSupplements

\* the OBO build of a custom ontology and the child sums of its plot
SupplementsSpec == OboInitEngine /\ [][SupplementsNext]_vars

ScaleInitEngine == Constructed /\ engine = "scale"

ScaleNext == CalculateColorScale \/ LookupColor

\* calculate_color_scale_for_node and the lookups of its table, for every
\* maximum and colour scale
ScaleSpec == ScaleInitEngine /\ [][ScaleNext]_vars

\* the rows of the end-to-end example: C01 with count 0, C01.001 with count 5
\* and C01.001.002 with count 3
ExampleRows ==
    {[custom_id |-> <<<<"C01">>>>, counts |-> 0],
     [custom_id |-> <<<<"C01", "001">>>>, counts |-> 5],
     [custom_id |-> <<<<"C01", "001", "002">>>>, counts |-> 3]}

\* process_custom_row_data reads one more row of the example
ExampleProcessRow ==
    /\ engine = "mesh"
    /\ m_pc = "rows"
    /\ \E row \in ExampleRows \ Range(m_file) :
        /\ m_file' = Append(m_file, row)
        /\ mesh_tree' = ProcessCustomRow(mesh_tree, row)
    /\ UNCHANGED <<m_pc, m_s, plot_tree, m_plots, m_sep, m_color, m_error>>
    /\ UNCHANGED <<ppVars, uVars, engine, atcVars, scaleVars, oboVars, popupVars, dbVars, chunkVars>>

ExampleNext == ExampleProcessRow \/ MeshFinishLoad \/ MeshPlot

\* load and plot() of MeSHSunburst on the rows of the end-to-end example, in
\* every order
ExampleSpec == LoadInit /\ [][ExampleNext]_vars

\* the rows of the duplicate fan-out example: roots A and B, and X twice,
\* once under each
FanOutRows ==
    {[id |-> "A", parent |-> ""], [id |-> "B", parent |-> ""],
     [id |-> "X", parent |-> "A"], [id |-> "X", parent |-> "B"]}

FanOutInit ==
    /\ rows \in Orders(FanOutRows)
    /\ pc = "read"
    /\ tree = <<>>
    /\ nodes_to_process = <<>>
    /\ last_size = 0
    /\ error = "none"
    /\ LegacyInit /\ MeshInit /\ AtcInit /\ ScaleInit /\ OboInit
    /\ PopupInit /\ DbInit /\ ChunkInit
    /\ engine = "none"

MintNext == MintAddRow \/ Initialize

\* initialize_tree_structure of obo_utils.py on files whose identifiers look
\* like minted ids
MintSpec == Init /\ [][MintNext]_vars

FanOutNext == Initialize \/ SortCheck \/ Pass \/ Return

\* the parent-pointer build of obo_utils.py on the fan-out example, its rows
\* in every order
FanOutSpec == FanOutInit /\ [][FanOutNext]_vars

(***************************************************************************)
(* Properties.                                                             *)
(***************************************************************************)
ParentsPresent(nodes) ==
    \A k \in DOMAIN nodes : nodes[k].parent # "" => nodes[k].parent \in DOMAIN nodes

Parentless(nodes) == {k \in DOMAIN nodes : nodes[k].parent = ""}

\* C1: in the forest that the parent-pointer build returns, every node of a
\* branch with a non-empty parent has that parent in the same branch, and
\* exactly one node of the branch has no parent.
C1_BranchInvariant ==
    pc = "done" =>
        \A i \in DOMAIN tree :
            /\ ParentsPresent(tree[i].nodes)
            /\ Cardinality(Parentless(tree[i].nodes)) = 1

\* the branch stored under key k
BranchOf(k) == tree[BranchIndex(tree, k)].nodes

ParentRefs(rs) == {<<rs[i].id, rs[i].parent>> : i \in {j \in DOMAIN rs : rs[j].parent # ""}}

RECURSIVE Ancestors(_, _)
Ancestors(refs, S) ==
    LET more == S \cup {e[2] : e \in {r \in refs : r[1] \in S}}
    IN IF more = S THEN S ELSE Ancestors(refs, more)

\* some id is its own ancestor
HasCycle(rs) ==
    \E e \in ParentRefs(rs) : e[1] \in Ancestors(ParentRefs(rs), {e[2]})

\* C6: when the parent references of the rows form a cycle, the build of
\* obo_utils.py ends with an exception at the topological check: it neither
\* enters the attachment loop nor returns a forest.
C6_CycleRaises ==
    (HasCycle(rows) /\ pc \notin {"read", "initialized"}) =>
        (pc = "raised" /\ error \in {"RuntimeError", "KeyError"})

C6_Witness ==
    /\ rows = <<[id |-> "A", parent |-> "B"], [id |-> "B", parent |-> "A"]>>
    /\ pc = "raised"
    /\ error = "RuntimeError"

\* C7: a pending node whose parent never appears is dropped once it has
\* been tried 20 times, so the loop of utils.py has ended after 21 passes.
C7_DroppedAfterBudget ==
    passes > AttemptBudget => u_pc = "done"

(***************************************************************************)
(* The separator-based assembler.                                          *)
(***************************************************************************)

\* C2: after any sequence of insertions, in every branch each node with a
\* non-empty parent has that parent in the branch, exactly one node of the
\* branch has an empty parent, and that node's id is the branch key
C2_SingleRootPerBranch ==
    \A k \in DOMAIN mesh_tree :
        LET b == mesh_tree[k]
        IN /\ \A i \in DOMAIN b : b[i].parent # EmptyString => HasNode(b, b[i].parent)
           /\ Cardinality({i \in DOMAIN b : b[i].parent = EmptyString}) = 1
           /\ \A i \in DOMAIN b : b[i].parent = EmptyString => b[i].id = k

\* the alias identifiers of the rows the loader did not skip
InsertedIds == UNION {Range(m_file[r].custom_id) :
                        r \in {q \in DOMAIN m_file : m_file[q].custom_id # <<EmptyString>>}}

\* C3: every alias identifier inserted has a node in the branch keyed by its
\* first segment; every node, artificial ancestors included, is stored under
\* the first segment of its id, its level is the number of separators in its
\* id, and its parent is its id without the last segment, empty at level 0
C3_PositionFromId ==
    /\ \A id \in InsertedIds :
          <<id[1]>> \in DOMAIN mesh_tree /\ HasNode(mesh_tree[<<id[1]>>], id)
    /\ \A k \in DOMAIN mesh_tree : \A i \in DOMAIN mesh_tree[k] :
          LET n == mesh_tree[k][i]
          IN /\ k = <<n.id[1]>>
             /\ n.level = Len(n.id) - 1
             /\ n.parent = IF n.level = 0 THEN EmptyString
                           ELSE [j \in 1..(Len(n.id) - 1) |-> n.id[j]]

\* a row with two aliases was read and an artificial ancestor below a root exists
C3_Witness ==
    /\ \E r \in DOMAIN m_file : Len(m_file[r].custom_id) = 2
    /\ \E k \in DOMAIN mesh_tree : \E i \in DOMAIN mesh_tree[k] :
          mesh_tree[k][i].label = "N/A" /\ mesh_tree[k][i].level > 0

\* ids, parents and levels of a forest, in the order the branches hold them
Structure(t) ==
    [k \in DOMAIN t |->
        [i \in DOMAIN t[k] |->
            [id |-> t[k][i].id, parent |-> t[k][i].parent, level |-> t[k][i].level]]]

\* C4: reading the same rows a second time leaves ids, parents, levels and
\* their places as they are, and inserting an identifier that is present,
\* with other counts and another label, changes nothing but these data
\* fields of its own node
C4_ReinsertionKeepsStructure ==
    /\ Structure(process_custom_row_data(mesh_tree, m_file)) = Structure(mesh_tree)
    /\ \A k \in DOMAIN mesh_tree : \A i \in DOMAIN mesh_tree[k] :
          LET other == set_default_row_data(
                           CHOOSE c \in CountCells :
                               set_default_row_data(c) # mesh_tree[k][i].counts)
          IN InsertTreeId(mesh_tree, mesh_tree[k][i].id, other, "again")
             = [mesh_tree EXCEPT ![k][i].counts = other, ![k][i].label = "again"]

\* the same identifier was read twice with different counts, the node holds
\* the later ones and has an artificial-free place below a root
C4_Witness ==
    /\ Len(m_file) = 2
    /\ m_file[1].custom_id = m_file[2].custom_id
    /\ m_file[1].counts # m_file[2].counts
    /\ Len(m_file[1].custom_id[1]) = 3
    /\ \E k \in DOMAIN mesh_tree :
          /\ Len(mesh_tree[k]) = 3
          /\ mesh_tree[k][1].counts = set_default_row_data(m_file[2].counts)

(***************************************************************************)
(* Count propagation.  A plotted branch is seen as four functions on the   *)
(* ids of its nodes: the imported count before the propagation, the        *)
(* imported count after it, the parent id and the level.                   *)
(***************************************************************************)

\* MeSHSunburst.plot: the branch k of plot_tree in a step that plots
MeshView(k) ==
    [pre |-> [id \in IdSet(plot_tree'[k]) |-> GetNode(mesh_tree[k], id).counts],
     post |-> [id \in IdSet(plot_tree'[k]) |-> GetNode(mesh_tree'[k], id).imported_counts],
     parent |-> [id \in IdSet(plot_tree'[k]) |-> GetNode(mesh_tree[k], id).parent],
     level |-> [id \in IdSet(plot_tree'[k]) |-> GetNode(mesh_tree[k], id).level]]

\* ATCSunburst.plot: the branch k of atc_tree in a step that plots
AtcView(k) ==
    [pre |-> [id \in IdSet(IdsOf(atc_tree[k])) |-> GetNode(atc_tree[k], id).imported_counts],
     post |-> [id \in IdSet(IdsOf(atc_tree[k])) |-> GetNode(atc_tree'[k], id).imported_counts],
     parent |-> [id \in IdSet(IdsOf(atc_tree[k])) |-> GetNode(atc_tree[k], id).parent],
     level |-> [id \in IdSet(IdsOf(atc_tree[k])) |-> GetNode(atc_tree[k], id).level]]

\* the sum of the counts f gives to the ids of S
RECURSIVE SumOver(_, _)
SumOver(f, S) ==
    IF S = {} THEN [units |-> 0, sentinels |-> 0]
    ELSE LET x == CHOOSE y \in S : TRUE IN AddCounts(f[x], SumOver(f, S \ {x}))

\* the ids of S and everything below them
RECURSIVE Below(_, _)
Below(v, S) ==
    LET more == S \cup {id \in DOMAIN v.parent : v.parent[id] \in S}
    IN IF more = S THEN S ELSE Below(v, more)

\* the nodes without a parent in the branch
Roots(v) == {id \in DOMAIN v.parent : v.parent[id] \notin DOMAIN v.parent}

\* the nodes that are nobody's parent
Leaves(v) == {id \in DOMAIN v.parent : \A c \in DOMAIN v.parent : v.parent[c] # id}

\* every node with a parent in the branch has a higher level than its parent
Deeper(v) ==
    \A id \in DOMAIN v.parent :
        v.parent[id] \in DOMAIN v.parent => v.level[id] > v.level[v.parent[id]]

MeshPlotsWith(policy) ==
    /\ m_plots' = m_plots + 1
    /\ m_s'.mesh_propagate_enable
    /\ m_s'.mesh_propagate_counts = policy

AtcPlotsWith(policy) ==
    /\ a_plots' = a_plots + 1
    /\ a_s'.atc_propagate_counts = policy

\* a root ends with the sum of what the leaves below it had before
LeafSums(v) ==
    \A r \in Roots(v) : v.post[r] = SumOver(v.pre, Below(v, {r}) \cap Leaves(v))

SubtreeSums(v) ==
    Deeper(v) => \A r \in Roots(v) : v.post[r] = SumOver(v.pre, Below(v, {r}))

ExamplePlotted ==
    /\ Range(m_file) = ExampleRows
    /\ m_plots = 1
    /\ m_s.mesh_propagate_enable /\ m_s.mesh_propagate_counts = "all"

\* the imported counts of the nodes of the example, given that of C01
ExampleResult(root_count) ==
    /\ DOMAIN mesh_tree = {<<"C01">>}
    /\ DOMAIN plot_tree = {<<"C01">>}
    /\ IdSet(IdsOf(mesh_tree[<<"C01">>]))
          = {<<"C01">>, <<"C01", "001">>, <<"C01", "001", "002">>}
    /\ GetNode(mesh_tree[<<"C01">>], <<"C01">>).imported_counts = root_count
    /\ GetNode(mesh_tree[<<"C01">>], <<"C01", "001">>).imported_counts
          = [units |-> 8, sentinels |-> 0]
    /\ GetNode(mesh_tree[<<"C01">>], <<"C01", "001", "002">>).imported_counts
          = [units |-> 3, sentinels |-> 0]

\* C9 as the spec states it: for the rows C01 (count 0), C01.001 (count 5) and
\* C01.001.002 (count 3) with propagation enabled and policy all, the result
\* is the single branch C01 with imported counts 8, 8 and 3
C9_ExampleCounts ==
    ExamplePlotted => ExampleResult([units |-> 8, sentinels |-> 0])

\* C9: for the rows C01 (count 0), C01.001 (count 5) and C01.001.002 (count 3)
\* with propagation enabled and policy all, the first plot() gives the single
\* branch C01 in which C01 has imported count 8.000001337 (8 and the sentinel
\* that stands for its count 0), C01.001 has 8 and C01.001.002 has 3
C9_ExampleCountsWithSentinel ==
    ExamplePlotted => ExampleResult([units |-> 8, sentinels |-> 1])

\* the example was plotted, its rows read leaf first
C9_Witness ==
    /\ ExamplePlotted
    /\ m_file[1].counts = 3
    /\ Len(plot_tree[<<"C01">>]) = 3

\* a node ends with what it had before plus what the children in contrib end with
ChildSums(v, contrib) ==
    \A p \in DOMAIN v.parent :
        v.post[p] = AddCounts(v.pre[p], SumOver(v.post, {c \in contrib : v.parent[c] = p}))

\* the nodes whose parent is in the branch and has a level of lvl or more
ByParentLevel(v, lvl) ==
    {c \in DOMAIN v.parent :
        v.parent[c] \in DOMAIN v.parent /\ v.level[v.parent[c]] >= lvl}

\* the nodes whose parent is in the branch and whose own level is more than lvl
ByChildLevel(v, lvl) ==
    {c \in DOMAIN v.parent : v.parent[c] \in DOMAIN v.parent /\ v.level[c] > lvl}

TableCutoff(fraction) == (c_max.units * fraction) \div (c_factor * 100)

\* the colours of the table at the indices low + 1 .. high are the gradient
\* of high - low colours from lower_color to upper_color
SegmentAt(low, high, lower_color, upper_color) ==
    \A index \in (low + 1)..high :
        /\ index + 1 \in DOMAIN c_scale
        /\ c_scale[index + 1] = IF index = low + 1 THEN Hex(lower_color)
                                ELSE <<lower_color, upper_color, high - low, index - low - 1>>

\* C11: the colour table has the default colour at index 0, then the
\* gradient of every pair of consecutive breakpoints, each starting right
\* after the one before, and 1 + floor(M') entries in all, M' being the
\* maximum divided by the factor
C11_TableLayout ==
    (c_pc = "scaled" /\ lookups = <<>>) =>
        /\ c_scale[1] = Hex(c_s.default_color)
        /\ \A i \in 1..(Len(c_s.color_scale) - 1) :
            SegmentAt(TableCutoff(c_s.color_scale[i][1]),
                      TableCutoff(c_s.color_scale[i + 1][1]),
                      c_s.color_scale[i][2], c_s.color_scale[i + 1][2])
        /\ Len(c_scale) = 1 + (c_max.units \div c_factor)

\* a table of three breakpoints with two segments of more than one colour
C11_Witness ==
    /\ c_pc = "scaled"
    /\ Len(c_s.color_scale) = 3
    /\ TableCutoff(c_s.color_scale[2][1]) > 1
    /\ Len(c_scale) > TableCutoff(c_s.color_scale[2][1]) + 2

\* C12 as stated: the factor is 1 up to a maximum of 100,000, 10 above it up
\* to 250,000 and 25 above that, and the table is sized by M / factor
C12_FactorAboveThresholds ==
    c_pc = "scaled" =>
        /\ c_factor = IF c_max.units <= 100000 THEN 1
                      ELSE IF c_max.units <= 250000 THEN 10 ELSE 25
        /\ Len(c_scale) = 1 + (c_max.units \div c_factor)

\* C12, amended: the factor is 1 for a maximum below 100,000, 10 from
\* 100,000 on and below 250,000, and 25 from 250,000 on; the table is sized
\* by the maximum divided by the factor
C12_FactorFromThresholds ==
    c_pc = "scaled" =>
        /\ c_factor = IF c_max.units < 100000 THEN 1
                      ELSE IF c_max.units < 250000 THEN 10 ELSE 25
        /\ Len(c_scale) = 1 + (c_max.units \div c_factor)

\* a maximum of exactly 100,000 is compressed
C12_Witness == c_pc = "scaled" /\ c_max.units = 100000 /\ c_factor = 10

\* C14: of two values looked up in the same table with the same factor, the
\* smaller one never gets the larger index
C14_IndexMonotone ==
    \A i, j \in DOMAIN lookups :
        (lookups[j].value # lookups[i].value
         /\ CountsGeq(lookups[j].value, lookups[i].value))
            => lookups[i].index <= lookups[j].index

\* two values of one compressed table with different indices
C14_Witness ==
    /\ Len(lookups) = 2
    /\ c_factor = 10
    /\ lookups[1].value.units < lookups[2].value.units
    /\ lookups[1].index < lookups[2].index

\* C13: a colour lookup of plot() never fails with an out-of-range index,
\* whatever the propagation mode: no plot ends with the IndexError of
\* scale[int(imported_counts / factor)]
C13_LookupInRange == m_error # "IndexError"

\* the colour of a node: the one the last colour propagation that reached it
\* gave it, the default colour before
NodeColor(k, id) ==
    IF <<k, id>> \in DOMAIN m_color THEN m_color[<<k, id>>] ELSE Hex(m_s.default_color)

\* id is an ancestor of another plotted node of branch k
IsAncestor(k, id) ==
    \E other \in Range(plot_tree[k]) :
        Len(other) > Len(id) /\ SubSeq(other, 1, Len(id)) = id

\* the plotted nodes of branch k that are no ancestor of a plotted node
Outermost(k) == {id \in Range(plot_tree[k]) : ~IsAncestor(k, id)}

\* the largest imported count of the outermost nodes of branch k, 0 at least
OutermostMax(k) ==
    MaxCounts({NoCounts} \cup {GetNode(mesh_tree[k], id).imported_counts : id \in Outermost(k)})

\* the entry of the table of maximum m the value v selects
TableColor(m, v) ==
    LET t == ScaleOfMax(m_s, IntOf(m))
    IN ScaleLookup(t.scale, v, t.factor).color

\* C15: in phenotype colour mode, after the colour propagation of plot()
\* every plotted node that is an ancestor of another plotted node of its
\* branch has the default colour, and every outermost node has the colour
\* table[floor(imported count / factor)] of the scale of the maximum over the
\* outermost nodes
C15_PhenotypeMode ==
    (/\ m_plots > 0
     /\ m_s.mesh_propagate_enable
     /\ m_s.mesh_propagate_color = "phenotype"
     /\ m_error = "none") =>
        \A k \in DOMAIN plot_tree :
            \A id \in Range(plot_tree[k]) :
                NodeColor(k, id) =
                    IF IsAncestor(k, id) THEN Hex(m_s.default_color)
                    ELSE TableColor(OutermostMax(k),
                                    GetNode(mesh_tree[k], id).imported_counts)

(***************************************************************************)
(* Empty identifiers in the separator-based assembler.                     *)
(***************************************************************************)

\* the file without its empty alias identifiers
WithoutEmptyIds(file) ==
    [i \in DOMAIN file |->
        [file[i] EXCEPT !.custom_id = SelectSeq(@, LAMBDA id : id # EmptyString)]]

\* C16: an empty identifier, be it the id of a row or one alias of a list
\* of aliases, is skipped: the tree is the tree of the file without its
\* empty identifiers, so that an empty identifier makes no node and no branch
C16_EmptyIdSkipped ==
    m_pc = "rows" =>
        mesh_tree = process_custom_row_data(EmptyDict, WithoutEmptyIds(m_file))

(***************************************************************************)
(* The node records of the OBO builds.                                     *)
(***************************************************************************)

\* the places of the forest: <<branch, position>>
TreePlaces == UNION {{<<b, i>> : i \in DOMAIN o_tree[b].nodes} : b \in DOMAIN o_tree}

\* C17: in the forest an OBO build returns no node record is shared: the
\* dict of a place of the forest is neither the dict of another place nor
\* the dict of the source term table
C17_NoSharedNode ==
    o_pc = "done" =>
        \A p \in TreePlaces :
            LET obj == o_tree[p[1]].nodes[p[2]].obj
            IN /\ obj \notin Range(o_raw_terms)
               /\ \A q \in TreePlaces \ {p} : o_tree[q[1]].nodes[q[2]].obj # obj

(***************************************************************************)
(* The ids of the disambiguation pass.                                     *)
(***************************************************************************)

\* C18: the ids initialize_tree_structure assigns are pairwise distinct:
\* the identifiers of the file, one per data line, get as many different ids
\* as there are lines
C18_MintedIdsDistinct ==
    pc = "initialized" =>
        Cardinality({nodes_to_process[i].updated_id : i \in DOMAIN nodes_to_process})
            = Len(rows)

(***************************************************************************)
(* The children count.                                                     *)
(***************************************************************************)

\* the ids on the way from a node up to the root node of its sub-tree
RECURSIVE AncestorsIn(_, _)
AncestorsIn(sub_tree, id) ==
    LET parent == ParentIn(sub_tree, id)
    IN IF parent = "" THEN {} ELSE {parent} \cup AncestorsIn(sub_tree, parent)

\* the direct and indirect children of a node, the node itself excluded
DescendantsIn(sub_tree, id) ==
    {n \in {sub_tree[i].id : i \in DOMAIN sub_tree} \ {id} : id \in AncestorsIn(sub_tree, n)}

\* C19: the children count of every node of every branch of the plot is the
\* number of its descendants in that branch
C19_ChildSumIsDescendants ==
    o_pc = "plotted" =>
        \A k \in DOMAIN o_sum_dict :
            \A i \in DOMAIN PlotTreeOf(o_heap, o_tree)[k] :
                LET sub_tree == PlotTreeOf(o_heap, o_tree)[k]
                IN ChildSum(o_sum_dict, k, sub_tree[i].id)
                       = Cardinality(DescendantsIn(sub_tree, sub_tree[i].id))

(***************************************************************************)
(* plot() called twice.                                                    *)
(***************************************************************************)

\* the imported counts of a tree, per branch and place
ImportedCounts(t) ==
    [k \in DOMAIN t |-> [i \in DOMAIN t[k] |-> t[k][i].imported_counts]]

\* C20: a second plot() right after the first, on the same tree and with the
\* same settings, under the count policy all or level, leaves the imported
\* count of every node as the first plot() left it
C20_SecondPlotKeepsCounts ==
    [][/\ (/\ m_plots = 1 /\ m_plots' = 2
           /\ m_s'.mesh_propagate_enable
           /\ m_s'.mesh_propagate_counts \in {"all", "level"})
          => ImportedCounts(mesh_tree') = ImportedCounts(mesh_tree)
       /\ (/\ a_plots = 1 /\ a_plots' = 2
           /\ a_s'.atc_propagate_counts \in {"all", "level"})
          => ImportedCounts(atc_tree') = ImportedCounts(atc_tree)]_vars

(***************************************************************************)
(* The colour scale popup.                                                 *)
(***************************************************************************)

\* every entry of the popup is filled, the percentages increase strictly
\* from 0 to 100
ValidEntries(thresholds) ==
    /\ \A i \in DOMAIN thresholds :
          /\ thresholds[i].pct # "" /\ thresholds[i].hex # ""
          /\ IsFloat(thresholds[i].pct)
    /\ \A i, j \in DOMAIN thresholds :
          i < j => FloatOf(thresholds[i].pct) < FloatOf(thresholds[j].pct)
    /\ FloatOf(thresholds[1].pct) = 0
    /\ FloatOf(thresholds[Len(thresholds)].pct) = 100

\* C21: set stores a scale in the parent only if every entry is filled and
\* the percentages increase strictly from 0 to 100; in every other case the
\* scale of the parent stays as it is and the popup stays open
C21_SetStoresValidScale ==
    [][PopupSet =>
          IF ValidEntries(p_thresholds)
          THEN p_scale' = TmpScale(p_thresholds) /\ ~p_open'
          ELSE p_scale' = p_scale /\ p_open']_vars

\* C25: the popup never holds fewer than two threshold pairs: a decrease
\* takes the last pair away only when more than two pairs exist and leaves
\* every other pair in place, and when two pairs remain after a decrease the
\* last percentage reads 100
C25_NeverBelowTwoPairs ==
    /\ Len(p_thresholds) >= 2
    /\ [][/\ Len(p_thresholds') >= 2
          /\ PopupDecrease =>
                /\ Len(p_thresholds') = (IF Len(p_thresholds) > 2 THEN Len(p_thresholds) - 1
                                         ELSE Len(p_thresholds))
                /\ \A i \in 1..(Len(p_thresholds') - 1) : p_thresholds'[i] = p_thresholds[i]
                /\ Len(p_thresholds') = 2 => p_thresholds'[2].pct = "100"
                /\ Len(p_thresholds') > 2 => p_thresholds'[Len(p_thresholds')] = p_thresholds[Len(p_thresholds')]]_vars

\* a decrease has taken the third pair of the default scale away: the second
\* pair, which read 20.0, is the last one and reads 100
C25_Witness ==
    /\ Len(p_thresholds) = 2
    /\ p_thresholds[2] = [pct |-> "100", hex |-> "#403C53"]

\* C22: a constructed object that init() was never called on has is_init
\* False; whenever init() has returned is_init is True; and an init() without
\* a database makes no query and leaves the tree and the database as they were
C22_InitSetsIsInit ==
    /\ ~d_is_init
    /\ [][/\ d_pc' = "constructed" => ~d_is_init'
          /\ d_pc' = "returned" => d_is_init'
          /\ \A database \in {"None", ""} :
                MeshSunburstInit(database) \/ AtcSunburstInit(database) =>
                    /\ d_pc' = "returned"
                    /\ d_is_init'
                    /\ d_queries' = d_queries
                    /\ d_database' = d_database
                    /\ mesh_tree' = mesh_tree
                    /\ atc_tree' = atc_tree]_vars

\* init() has returned on an object that never saw a database: is_init is
\* True, no query was made, and the tree holds what the file rows put there
C22_Witness ==
    /\ d_pc = "returned"
    /\ d_is_init
    /\ d_queries = 0
    /\ d_database = "None"
    /\ engine = "atc"
    /\ Len(a_file) = 1

\* the positions 1..Len of the input that chunk i holds: i, i + n, i + 2n, ..
PositionsOf(i, n, len) == {q \in 1..len : (q - 1) % n = i - 1}

\* how often element x stands in list l
Occurrences(l, x) == Cardinality({q \in DOMAIN l : l[q] = x})

RECURSIVE OccurrencesIn(_, _)
OccurrencesIn(yielded, x) ==
    IF yielded = <<>> THEN 0
    ELSE Occurrences(Head(yielded), x) + OccurrencesIn(Tail(yielded), x)

\* C23: chunks(input_list, n) yields n chunks, chunk i holds the elements at
\* the positions i, i + n, i + 2n, .. in that order, and every element stands
\* in the chunks as often as in the input
C23_ChunksStripe ==
    k_pc # "idle" =>
        /\ Len(k_chunks) = k_number_of_chunks
        /\ \A i \in 1..k_number_of_chunks :
              /\ Len(k_chunks[i]) = Cardinality(PositionsOf(i, k_number_of_chunks, Len(k_input_list)))
              /\ \A j \in DOMAIN k_chunks[i] :
                    k_chunks[i][j] = k_input_list[i + (j - 1) * k_number_of_chunks]
        /\ \A x \in Range(k_input_list) \cup UNION {Range(k_chunks[c]) : c \in DOMAIN k_chunks} :
              OccurrencesIn(k_chunks, x) = Occurrences(k_input_list, x)
        /\ k_pc = "grid" => DOMAIN k_idx_to_grid = Range(k_input_list)

\* a list with a repeated element and fewer elements than chunks: the last
\* chunk is empty
C23_Witness ==
    /\ k_pc = "chunked"
    /\ k_input_list = <<"a", "b", "a">>
    /\ k_number_of_chunks = 4
    /\ k_chunks = <<<<"a">>, <<"b">>, <<"a">>, <<>>>>

\* C24: of the sub trees left by the cleaning loop, a build with
\* min_node_size returns exactly those with more than min_node_size nodes
C24_KeepsOnlyLarger ==
    [][\A m \in 1..MaxMinNodeSize :
          o_fn = "build_tree_from_obo_ontology" /\ OboFinishWith(m) =>
              o_tree' = SelectSeq(CleanTree(o_heap, o_tree), LAMBDA b : Len(b.nodes) > m)]_vars

\* what the build does: of the sub trees left by the cleaning loop it returns
\* exactly those with at least min_node_size nodes
KeepsAtLeast ==
    [][\A m \in 1..MaxMinNodeSize :
          o_fn = "build_tree_from_obo_ontology" /\ OboFinishWith(m) =>
              /\ \A i \in DOMAIN o_tree' : Len(o_tree'[i].nodes) >= m
              /\ o_tree' = SelectSeq(CleanTree(o_heap, o_tree), LAMBDA b : Len(b.nodes) >= m)
              /\ \A i \in DOMAIN o_tree :
                    Len(CleanTree(o_heap, o_tree)[i].nodes) < m =>
                        \A j \in DOMAIN o_tree' : o_tree'[j].key # o_tree[i].key]_vars

\* a build has returned a forest that holds a sub tree of two nodes, and a
\* sub tree of one node was removed
KeepsAtLeastReached ==
    /\ o_pc = "done"
    /\ o_fn = "build_tree_from_obo_ontology"
    /\ Len(o_tree) = 1
    /\ Len(o_tree[1].nodes) = 2
    /\ o_root_id = "none"
    /\ Cardinality({o \in DOMAIN o_heap : o_heap[o].is_a = <<>>}) = 2

\* every node ends with what it and all nodes below it had before
AllSubtreeSums(v) == \A n \in DOMAIN v.parent : v.post[n] = SumOver(v.pre, Below(v, {n}))

Attached == Len(nodes_to_process) - Len(AttachPass(nodes_to_process, tree, <<>>).uninserted)

\* C27: construct_complete_tree terminates: a pass attaches at least one
\* pending node or ends the loop, the pending list never grows and is shorter
\* after every pass that does not return, pending nodes that are all
\* parentless rows are discarded, and the loop once entered is left
C27_ConstructTerminates ==
    /\ [][Pass =>
            /\ Attached >= 1 \/ pc' = "done" \/ nodes_to_process' = <<>>
            /\ Len(nodes_to_process') <= Len(nodes_to_process)
            /\ pc' = "attach" => Len(nodes_to_process') < Len(nodes_to_process)
            /\ Attached = 0 /\ nodes_to_process' # <<>> => pc' = "done"
            /\ (\A i \in DOMAIN nodes_to_process' :
                    nodes_to_process'[i].original_parent_id = "") => nodes_to_process' = <<>>]_vars
    /\ (pc = "attach") ~> (pc = "done")

\* the loop has ended by a pass without progress after a pass that attached
\* a node: the nodes still pending are dropped, one of them is no parentless row
C27_Witness ==
    /\ pc = "done"
    /\ error = "none"
    /\ nodes_to_process # <<>>
    /\ Len(nodes_to_process) = last_size
    /\ \E i \in DOMAIN nodes_to_process : nodes_to_process[i].original_parent_id # ""
    /\ \E i \in DOMAIN tree : Cardinality(DOMAIN tree[i].nodes) >= 2

\* in a branch of the forest of obo_utils.py, a node without parent has
\* level 0 and every other node the level of its parent in the branch plus one
LevelsAreDepths(nodes) ==
    \A id \in DOMAIN nodes :
        IF nodes[id].parent = "" THEN nodes[id].level = 0
        ELSE /\ nodes[id].parent \in DOMAIN nodes
             /\ nodes[id].level = nodes[nodes[id].parent].level + 1

\* C28: in every branch the parent-pointer assembler builds, a root has
\* level 0 and every other node has the level of its parent in the same
\* branch plus one
C28_LevelIsDepth ==
    pc \in {"attach", "done"} => \A i \in DOMAIN tree : LevelsAreDepths(tree[i].nodes)

\* the same of a branch of the forest of utils.py, whose places hold node
\* numbers
LegacyLevelsAreDepths(nodes) ==
    \A id \in DOMAIN nodes :
        LET node == u_nodes[nodes[id]]
        IN IF node.parent = "" THEN node.level = 0
           ELSE /\ node.parent \in DOMAIN nodes
                /\ node.level = u_nodes[nodes[node.parent]].level + 1

LegacyLevelIsDepth ==
    u_pc \in {"loop", "done"} => \A i \in DOMAIN u_tree : LegacyLevelsAreDepths(u_tree[i].nodes)

\* the ids plot_tree holds for branch k after the step
KeptIn(k) == IF k \in DOMAIN plot_tree' THEN IdSet(plot_tree'[k]) ELSE {}

\* C29: with mesh_drop_empty_last_child enabled, the plot tree of
\* MeSHSunburst.plot is closed under parents: a kept node with a non-empty
\* parent has that parent kept in the same branch, so that a node is dropped
\* only if no kept node names it as parent, and every node whose count is not
\* the zero of an empty node is kept
C29_PlotTreeClosedUnderParents ==
    [][m_plots' = m_plots + 1 /\ m_s'.mesh_drop_empty_last_child =>
          \A k \in DOMAIN mesh_tree :
              /\ \A id \in KeptIn(k) :
                    GetNode(mesh_tree[k], id).parent # EmptyString =>
                        GetNode(mesh_tree[k], id).parent \in KeptIn(k)
              /\ \A i \in DOMAIN mesh_tree[k] :
                    /\ mesh_tree[k][i].counts # zero => mesh_tree[k][i].id \in KeptIn(k)
                    /\ mesh_tree[k][i].id \notin KeptIn(k) =>
                          /\ mesh_tree[k][i].counts = zero
                          /\ \A c \in KeptIn(k) :
                                GetNode(mesh_tree[k], c).parent # mesh_tree[k][i].id]_vars

\* a first plot with "drop empty" has kept an empty node because a node with
\* a count names it as parent, and has dropped another empty node of the file
C29_Witness ==
    /\ engine = "mesh" /\ m_plots = 1
    /\ m_s.mesh_drop_empty_last_child
    /\ \E k \in DOMAIN plot_tree :
          /\ Len(plot_tree[k]) = 2
          /\ Len(mesh_tree[k]) = 3
          /\ \E i, j \in DOMAIN mesh_tree[k] :
                /\ mesh_tree[k][i].imported_counts = zero
                /\ mesh_tree[k][i].id \in IdSet(plot_tree[k])
                /\ mesh_tree[k][j].parent = mesh_tree[k][i].id
                /\ mesh_tree[k][j].imported_counts.units = 2
                /\ mesh_tree[k][j].id \in IdSet(plot_tree[k])

\* the node numbers of the pending entries
PendingNodes(pending) == {pending[i].node : i \in DOMAIN pending}

\* the indexes of to_process that the scan of the pass about to run puts on
\* drop_idxs: the entries it inserts into a branch (line 64) and those it
\* finds at the budget (line 56)
InsertedOrAtBudget ==
    Range(LegacyScan([nodes |-> u_nodes, tree |-> u_tree,
                      to_process |-> to_process, drop_idxs |-> <<>>], 1).drop_idxs)

\* C30: a pending node leaves to_process only in a pass that inserted it
\* into a branch or found its attempts at the budget; no node is removed from
\* the list without having been attached
C30_RemovedOnlyWhenAttached ==
    [][LegacyPass =>
          \A i \in DOMAIN to_process :
              to_process[i].node \notin PendingNodes(to_process') => i \in InsertedOrAtBudget]_vars

====
